---- MODULE Spec2Model ----
(***************************************************************************)
(* A model of the Thunder storage engine (cyoab/thunder).                  *)
(*                                                                         *)
(* Part I   group-commit coordinator     src/src/group_commit.rs           *)
(* Part II  database file and            src/src/db.rs, src/src/tx.rs      *)
(*          transactions                                                   *)
(* Part III meta slot selection          src/src/db.rs (load_meta)         *)
(* Part IV  checkpoint manager           src/src/checkpoint.rs             *)
(* Part V   buckets and nested buckets   src/src/bucket.rs                 *)
(* Part VI  overflow page chains         src/src/overflow.rs               *)
(* Part VII FreeList                     src/src/freelist.rs               *)
(* Part VIII Bloom filter                src/src/bloom.rs                  *)
(* Part IX  WAL records                  src/src/wal_record.rs             *)
(* Part X   load_tree on file bytes      src/src/db.rs (load_tree)         *)
(*                                                                         *)
(* Every part has its own specification.  A specification keeps the        *)
(* variables of the other parts at their idle values.                      *)
(***************************************************************************)
EXTENDS Integers, Sequences, FiniteSets, TLC

(***************************************************************************)
(* Bounds of the model.                                                    *)
(***************************************************************************)
\* commit() calls the committer threads make, all together
MaxCalls == 3
\* GroupCommitConfig.max_batch_size, scaled down
MaxBatchSize == 2
\* GroupCommitConfig.max_wait in units of the leader's 500us sleep, scaled down
MaxWait == 2

\* The committer threads.
Threads == {"t1", "t2", "t3"}

\* Option::None of a completion slot or of a return value not yet there.
None == "None"

(***************************************************************************)
(* Part I.  GroupCommitManager                                             *)
(***************************************************************************)
VARIABLES
    pc,                 \* where each thread stands in commit() / run_leader()
    pending,            \* GroupCommitInner.pending: queue of PendingCommit
    leader_active,      \* GroupCommitInner.leader_active
    first_pending_time, \* GroupCommitInner.first_pending_time is Some
    pending_commits,    \* run_leader's local batch, per leader
    sync_result,        \* run_leader's local sync_result, per leader
    completion,         \* the completion slot of each thread's current call
    result,             \* what each thread's last commit() returned
    elapsed,            \* time a leader has spent waiting for its batch
    lsn,                \* the LSN each thread passes to commit()
    calls,              \* commit() calls started so far
    batch_count,        \* GroupCommitManager.batch_count
    commit_count,       \* GroupCommitManager.commit_count
    wal,                \* the WAL: next LSN, synced LSN, mutex held
    \* history of the run, written only, never read by the coordinator
    covered,            \* a sync that began after the enqueue has succeeded
    syncing_for,        \* the calls in flight when the running sync began
    taken_by,           \* the leader whose round took each thread's entry
    batch_sync,         \* the outcome of the sync of that round
    takes,              \* how often a leader took the entry of each thread's call
    writes,             \* how often the completion slot of that call was written
    sync_calls,         \* wal.sync() calls made by leaders
    failed_released,    \* a leader whose sync failed has given up leadership
    after_failure       \* each thread's call was enqueued after that

gcVars == <<pc, pending, leader_active, first_pending_time, pending_commits,
            sync_result, completion, result, elapsed, lsn, calls, batch_count,
            commit_count, wal, covered, syncing_for, taken_by, batch_sync,
            takes, writes, sync_calls, failed_released, after_failure>>

\* The state of Part II (described there).
VARIABLES
    db,                    \* "open": a Database value exists; "closed": none
    tree,                  \* Database.tree
    meta,                  \* Database.meta
    data_end_offset,       \* Database.data_end_offset
    persisted_entry_count, \* Database.persisted_entry_count
    file,                  \* the database file, as the process sees it
    disk,                  \* the file as of the last sync
    tx,                    \* the WriteTx: none, open, committing, and how it ended
    tx_pending,            \* WriteTx.pending
    tx_deleted,            \* WriteTx.deleted
    ppc,                   \* where persist_tree stands
    pidx,                  \* items persist_tree has written to the data region
    open_result,           \* what the last Database::open returned
    \* history of the run, written only, never read by the database
    attempts,              \* WriteTx::commit calls so far
    crashes,               \* crashes so far
    commits_ok,            \* commits that returned Ok, in the life of the file
    last_op,               \* the last operation of the open transaction per key
    before_tx,             \* tree, meta, file and disk when the transaction began
    last_ok_tree,          \* the working set when the last commit returned Ok
    since_ok,              \* "clean": no commit began since the last Ok;
                           \* "dirty": one did; "interrupted": a crash cut it
    interrupted_tree       \* the working set of the commit a crash interrupted

dbVars == <<db, tree, meta, data_end_offset, persisted_entry_count, file, disk,
            tx, tx_pending, tx_deleted, ppc, pidx, open_result, attempts, crashes,
            commits_ok, last_op, before_tx, last_ok_tree,
            since_ok, interrupted_tree>>

(***************************************************************************)
(* Part III: one call of Database::load_meta on a file whose two meta      *)
(* pages are given.                                                        *)
(***************************************************************************)
VARIABLES
    lm_meta0,              \* what Meta::from_bytes made of page 0
    lm_meta1,              \* what Meta::from_bytes made of page 1
    lm_result              \* what load_meta returned, once it has

lmVars == <<lm_meta0, lm_meta1, lm_result>>

(***************************************************************************)
(* Part IV: a CheckpointManager, the WAL it watches and one                *)
(* perform_checkpoint call at a time.                                      *)
(***************************************************************************)
VARIABLES
    ck_has_time,           \* CheckpointManager.last_checkpoint_time.is_some()
    ck_elapsed,            \* last_checkpoint_time.elapsed(), when it is Some
    ck_records,            \* CheckpointManager.records_since_checkpoint
    ck_wal_size_at,        \* CheckpointManager.wal_size_at_checkpoint
    ck_last_lsn,           \* CheckpointManager.last_checkpoint_lsn
    ck_wal_size,           \* wal.approximate_size()
    ck_wal_first,          \* the WAL holds no segment wholly below this LSN
    ck_should,             \* what the last should_checkpoint call returned
    ck_pc,                 \* where perform_checkpoint stands
    ck_lsn,                \* perform_checkpoint's checkpoint_lsn
    ck_persist,            \* what persist_fn returned in this call
    ck_truncate_called,    \* truncate_before was called in this call
    ck_result              \* what perform_checkpoint returned

ckVars == <<ck_has_time, ck_elapsed, ck_records, ck_wal_size_at, ck_last_lsn,
            ck_wal_size, ck_wal_first, ck_should, ck_pc, ck_lsn, ck_persist,
            ck_truncate_called, ck_result>>

(***************************************************************************)
(* Part V: one BTree used through the bucket functions.                    *)
(***************************************************************************)
VARIABLES
    bk_tree,               \* the BTree: internal key |-> value
    bk_last,               \* the last bucket operation, its argument and result
    bk_before,             \* the BTree before the last bucket operation
    bk_muts,               \* operations so far that changed the BTree
    \* history of the run, written only
    bk_data,               \* what was put into which bucket and not deleted
    bk_live                \* top-level names created and not deleted since

bkVars == <<bk_tree, bk_last, bk_before, bk_muts, bk_data, bk_live>>

(***************************************************************************)
(* Part VI: an OverflowManager and the file its pages are written to.      *)
(***************************************************************************)
VARIABLES
    ov_next_page_id,       \* OverflowManager.next_page_id
    ov_free_pages,         \* OverflowManager.free_pages
    ov_file,               \* the file: page id |-> the bytes of the page
    ov_read,               \* the last read_overflow: its reference and result
    ov_stores,             \* allocate_overflow calls so far
    \* history of the run, written only
    ov_live,               \* the references handed out and not freed, with their values
    ov_corrupted,          \* a byte of the file was changed behind the manager
    ov_hist                \* the chains handed out by the allocator run alone,
                           \* oldest first: reference, page ids in chain order,
                           \* value, and whether it is live

ovVars == <<ov_next_page_id, ov_free_pages, ov_file, ov_read, ov_stores,
            ov_live, ov_corrupted, ov_hist>>

(***************************************************************************)
(* Part VII: a FreeList.                                                   *)
(***************************************************************************)
VARIABLES
    fl_pages,              \* FreeList.pages: the BTreeSet, as its ids in ascending order
    fl_last,               \* the last call, its argument and what it returned
    \* history of the run, written only
    fl_set,                \* the set of ids the calls so far leave free
    fl_prev,               \* that set before the last call
    fl_held                \* ids returned by allocate and not freed since

flVars == <<fl_pages, fl_last, fl_set, fl_prev, fl_held>>

(***************************************************************************)
(* Part VIII: a BloomFilter.                                               *)
(***************************************************************************)
VARIABLES
    bf_bits,               \* BloomFilter.bits: word index |-> the bits set in the word
    bf_item_count,         \* BloomFilter.item_count
    bf_last,               \* the last call, its key and what it returned
    \* history of the run, written only
    bf_inserted            \* the keys inserted since new or the last clear

bfVars == <<bf_bits, bf_item_count, bf_last, bf_inserted>>

(***************************************************************************)
(* Part IX: one WAL record, its encoding and what decode makes of it.      *)
(***************************************************************************)
VARIABLES
    wr_rec,                \* the record last encoded
    wr_buf,                \* the buffer handed to WalRecord::decode
    wr_res,                \* what WalRecord::decode returned for wr_buf
    wr_op                  \* what made wr_buf: "encode", "truncate", "corrupt", "trailing"

wrVars == <<wr_rec, wr_buf, wr_res, wr_op>>

(***************************************************************************)
(* Part X: one call of load_tree on the bytes of a data region.            *)
(***************************************************************************)
VARIABLES
    lt_root,               \* meta.root of the meta page load_meta chose
    lt_data,               \* the bytes of the file from data_offset on
    lt_desc,               \* how lt_data was laid out: count, entries, length
    lt_result              \* what load_tree returned, "NotCalled" before

ltVars == <<lt_root, lt_data, lt_desc, lt_result>>

\* What the steps of each part leave alone: the state of the other parts.
gcOthers == <<dbVars, lmVars, ckVars, bkVars, ovVars, flVars, bfVars, wrVars, ltVars>>
dbOthers == <<gcVars, lmVars, ckVars, bkVars, ovVars, flVars, bfVars, wrVars, ltVars>>
lmOthers == <<gcVars, dbVars, ckVars, bkVars, ovVars, flVars, bfVars, wrVars, ltVars>>
ckOthers == <<gcVars, dbVars, lmVars, bkVars, ovVars, flVars, bfVars, wrVars, ltVars>>
bkOthers == <<gcVars, dbVars, lmVars, ckVars, ovVars, flVars, bfVars, wrVars, ltVars>>
ovOthers == <<gcVars, dbVars, lmVars, ckVars, bkVars, flVars, bfVars, wrVars, ltVars>>
flOthers == <<gcVars, dbVars, lmVars, ckVars, bkVars, ovVars, bfVars, wrVars, ltVars>>
bfOthers == <<gcVars, dbVars, lmVars, ckVars, bkVars, ovVars, flVars, wrVars, ltVars>>
wrOthers == <<gcVars, dbVars, lmVars, ckVars, bkVars, ovVars, flVars, bfVars, ltVars>>
ltOthers == <<gcVars, dbVars, lmVars, ckVars, bkVars, ovVars, flVars, bfVars, wrVars>>

\* Result<()> of commit(): Ok, or Error::GroupCommitFailed.
GroupCommitFailed == "GroupCommitFailed"

\* A closure that drops the error.
MapSyncResultSwallowsError(r) == "Ok"

\* The closure of line 190: Ok stays Ok, an error becomes GroupCommitFailed.
MapSyncResult(r) == IF r = "Ok" THEN "Ok" ELSE GroupCommitFailed

\* The threads whose call is enqueued and has not returned.
InFlight == {t \in Threads : pc[t] \in {"leader_poll", "take", "sync", "syncing",
                                        "notify", "wait"}}

\* The entries of a queue, as a set.
Entries(q) == {q[i] : i \in 1..Len(q)}

GCInit ==
    /\ pc = [t \in Threads |-> "idle"]
    /\ pending = <<>>
    /\ leader_active = FALSE
    /\ first_pending_time = FALSE
    /\ pending_commits = [t \in Threads |-> <<>>]
    /\ sync_result = [t \in Threads |-> None]
    /\ completion = [t \in Threads |-> None]
    /\ result = [t \in Threads |-> None]
    /\ elapsed = [t \in Threads |-> 0]
    /\ lsn = [t \in Threads |-> 0]
    /\ calls = 0
    /\ batch_count = 0
    /\ commit_count = 0
    /\ wal = [next |-> 0, synced |-> 0, locked |-> FALSE]
    /\ covered = [t \in Threads |-> FALSE]
    /\ syncing_for = [t \in Threads |-> {}]
    /\ taken_by = [t \in Threads |-> None]
    /\ batch_sync = [t \in Threads |-> None]
    /\ takes = [t \in Threads |-> 0]
    /\ writes = [t \in Threads |-> 0]
    /\ sync_calls = 0
    /\ failed_released = FALSE
    /\ after_failure = [t \in Threads |-> FALSE]

\* The caller appends its record under the WAL mutex and gets its LSN
\* (the callers of group_commit.rs, lines 317-325).
WalAppend(t) ==
    /\ UNCHANGED gcOthers
    /\ pc[t] = "idle"
    /\ calls < MaxCalls
    /\ ~wal.locked
    /\ lsn' = [lsn EXCEPT ![t] = wal.next]
    /\ wal' = [wal EXCEPT !.next = wal.next + 1]
    /\ calls' = calls + 1
    /\ result' = [result EXCEPT ![t] = None]
    /\ pc' = [pc EXCEPT ![t] = "call"]
    /\ UNCHANGED <<pending, leader_active, first_pending_time, pending_commits,
                   sync_result, completion, elapsed, batch_count, commit_count,
                   covered, syncing_for, taken_by, batch_sync>>
    /\ UNCHANGED <<takes, writes, sync_calls, failed_released, after_failure>>

\* A committer that leads whether or not a leader is active.
ShouldLeadAlways(active) == TRUE

\* should_lead = !inner.leader_active.
ShouldLead(active) == ~active

\* commit(), the first critical section: enqueue, and lead if nobody does.
Enqueue(t) ==
    /\ UNCHANGED gcOthers
    /\ pc[t] = "call"
    /\ completion' = [completion EXCEPT ![t] = None]
    /\ first_pending_time' = TRUE
    /\ pending' = Append(pending, t)
    /\ leader_active' = TRUE
    /\ pc' = [pc EXCEPT ![t] = IF ShouldLead(leader_active) THEN "leader_poll" ELSE "wait"]
    /\ covered' = [covered EXCEPT ![t] = FALSE]
    /\ taken_by' = [taken_by EXCEPT ![t] = None]
    /\ batch_sync' = [batch_sync EXCEPT ![t] = None]
    /\ UNCHANGED <<pending_commits, sync_result, result, elapsed, lsn, calls,
                   batch_count, commit_count, wal, syncing_for>>
    /\ takes' = [takes EXCEPT ![t] = 0]
    /\ writes' = [writes EXCEPT ![t] = 0]
    /\ after_failure' = [after_failure EXCEPT ![t] = failed_released]
    /\ UNCHANGED <<sync_calls, failed_released>>

\* run_leader's loop condition.
ShouldFlush(t) ==
    \/ Len(pending) >= MaxBatchSize
    \/ elapsed[t] >= MaxWait
    \/ pending = <<>>

\* run_leader's loop, no flush yet: sleep one step, or longer.
LeaderSleep(t) ==
    /\ UNCHANGED gcOthers
    /\ pc[t] = "leader_poll"
    /\ ~ShouldFlush(t)
    /\ \E d \in 1..(MaxWait - elapsed[t]) :
           elapsed' = [elapsed EXCEPT ![t] = elapsed[t] + d]
    /\ UNCHANGED <<pc, pending, leader_active, first_pending_time, pending_commits,
                   sync_result, completion, result, lsn, calls, batch_count,
                   commit_count, wal, covered, syncing_for, taken_by, batch_sync>>
    /\ UNCHANGED <<takes, writes, sync_calls, failed_released, after_failure>>

\* run_leader's loop: break.
LeaderBreak(t) ==
    /\ UNCHANGED gcOthers
    /\ pc[t] = "leader_poll"
    /\ ShouldFlush(t)
    /\ pc' = [pc EXCEPT ![t] = "take"]
    /\ UNCHANGED <<pending, leader_active, first_pending_time, pending_commits,
                   sync_result, completion, result, elapsed, lsn, calls,
                   batch_count, commit_count, wal, covered, syncing_for, taken_by,
                   batch_sync>>
    /\ UNCHANGED <<takes, writes, sync_calls, failed_released, after_failure>>

\* A take of the oldest entry only.
TakeOldest(q) == IF q = <<>> THEN <<>> ELSE <<Head(q)>>

\* std::mem::take(&mut inner.pending): the batch is the whole queue.
TakeBatch(q) == q

\* run_leader, the second critical section: take the whole queue.
LeaderTake(t) ==
    /\ UNCHANGED gcOthers
    /\ pc[t] = "take"
    /\ pending_commits' = [pending_commits EXCEPT ![t] = TakeBatch(pending)]
    /\ pending' = <<>>
    /\ first_pending_time' = FALSE
    /\ taken_by' = [u \in Threads |->
                      IF u \in Entries(TakeBatch(pending)) THEN t ELSE taken_by[u]]
    /\ pc' = [pc EXCEPT ![t] = "sync"]
    /\ UNCHANGED <<leader_active, sync_result, completion, result, elapsed, lsn,
                   calls, batch_count, commit_count, wal, covered, syncing_for,
                   batch_sync>>
    /\ takes' = [u \in Threads |->
                   IF u \in Entries(TakeBatch(pending)) THEN takes[u] + 1 ELSE takes[u]]
    /\ UNCHANGED <<writes, sync_calls, failed_released, after_failure>>

\* run_leader: lock the WAL and call wal.sync().
LeaderSyncStart(t) ==
    /\ UNCHANGED gcOthers
    /\ pc[t] = "sync"
    /\ ~wal.locked
    /\ wal' = [wal EXCEPT !.locked = TRUE]
    /\ syncing_for' = [syncing_for EXCEPT ![t] = InFlight]
    /\ pc' = [pc EXCEPT ![t] = "syncing"]
    /\ UNCHANGED <<pending, leader_active, first_pending_time, pending_commits,
                   sync_result, completion, result, elapsed, lsn, calls,
                   batch_count, commit_count, covered, taken_by, batch_sync>>
    /\ sync_calls' = sync_calls + 1
    /\ UNCHANGED <<takes, writes, failed_released, after_failure>>

\* wal.sync() returns Ok (every appended record is durable) or an error.
WalSync(r) ==
    [wal EXCEPT !.synced = IF r = "Ok" THEN wal.next ELSE wal.synced,
                !.locked = FALSE]

\* run_leader: wal.sync() returns; batch_count is bumped.
LeaderSyncEnd(t) ==
    /\ UNCHANGED gcOthers
    /\ pc[t] = "syncing"
    /\ \E r \in {"Ok", "Err"} :
         /\ sync_result' = [sync_result EXCEPT ![t] = r]
         /\ wal' = WalSync(r)
         /\ covered' = [u \in Threads |->
                          covered[u] \/ (r = "Ok" /\ u \in syncing_for[t])]
         /\ batch_sync' = [u \in Threads |->
                             IF u \in Entries(pending_commits[t]) THEN r
                             ELSE batch_sync[u]]
    /\ batch_count' = batch_count + 1
    /\ pc' = [pc EXCEPT ![t] = "notify"]
    /\ UNCHANGED <<pending, leader_active, first_pending_time, pending_commits,
                   completion, result, elapsed, lsn, calls, commit_count,
                   syncing_for, taken_by>>
    /\ UNCHANGED <<takes, writes, sync_calls, failed_released, after_failure>>

\* A leader that hands the sync error to its own slot only.
NotifyErrorToLeaderOnly(t, c) ==
    IF c = t THEN MapSyncResult(sync_result[t]) ELSE "Ok"

\* The value leader t stores into the completion slot of commit c: the
\* outcome of the one sync, the same for every commit of the batch.
NotifyValue(t, c) == MapSyncResult(sync_result[t])

\* run_leader's notification loop, one entry per step.
LeaderNotify(t) ==
    /\ UNCHANGED gcOthers
    /\ pc[t] = "notify"
    /\ pending_commits[t] # <<>>
    /\ completion' = [completion EXCEPT ![Head(pending_commits[t])] =
                                          NotifyValue(t, Head(pending_commits[t]))]
    /\ pending_commits' = [pending_commits EXCEPT ![t] = Tail(pending_commits[t])]
    /\ UNCHANGED <<pc, pending, leader_active, first_pending_time, sync_result,
                   result, elapsed, lsn, calls, batch_count, commit_count, wal,
                   covered, syncing_for, taken_by, batch_sync>>
    /\ writes' = [writes EXCEPT ![Head(pending_commits[t])] = @ + 1]
    /\ UNCHANGED <<takes, sync_calls, failed_released, after_failure>>

\* A release that keeps leader_active set after a failed sync.
ActiveAfterReleaseUnlessFailed(r) == r = "Err"

\* inner.leader_active = false, whatever the sync returned.
ActiveAfterRelease(r) == FALSE

\* run_leader, the last critical section: give up leadership.  The
\* notify_one on leader_condvar (line 205) wakes a thread waiting on that
\* condvar; no code waits on it, so the call changes nothing.  The locals
\* of run_leader go out of scope.
LeaderRelease(t) ==
    /\ UNCHANGED gcOthers
    /\ pc[t] = "notify"
    /\ pending_commits[t] = <<>>
    /\ leader_active' = ActiveAfterRelease(sync_result[t])
    /\ sync_result' = [sync_result EXCEPT ![t] = None]
    /\ syncing_for' = [syncing_for EXCEPT ![t] = {}]
    /\ elapsed' = [elapsed EXCEPT ![t] = 0]
    /\ pc' = [pc EXCEPT ![t] = "wait"]
    /\ UNCHANGED <<pending, first_pending_time, pending_commits, completion,
                   result, lsn, calls, batch_count, commit_count, wal, covered,
                   taken_by, batch_sync>>
    /\ failed_released' = (failed_released \/ sync_result[t] = "Err")
    /\ UNCHANGED <<takes, writes, sync_calls, after_failure>>

\* commit(): wait on the completion slot, then take and return its value.
AwaitCompletion(t) ==
    /\ UNCHANGED gcOthers
    /\ pc[t] = "wait"
    /\ completion[t] # None
    /\ commit_count' = commit_count + 1
    /\ result' = [result EXCEPT ![t] = completion[t]]
    /\ completion' = [completion EXCEPT ![t] = None]
    /\ pc' = [pc EXCEPT ![t] = "idle"]
    /\ UNCHANGED <<pending, leader_active, first_pending_time, pending_commits,
                   sync_result, elapsed, lsn, calls, batch_count, wal, covered,
                   syncing_for, taken_by, batch_sync>>
    /\ UNCHANGED <<takes, writes, sync_calls, failed_released, after_failure>>

GCStep(t) ==
    \/ WalAppend(t)
    \/ Enqueue(t)
    \/ LeaderSleep(t)
    \/ LeaderBreak(t)
    \/ LeaderTake(t)
    \/ LeaderSyncStart(t)
    \/ LeaderSyncEnd(t)
    \/ LeaderNotify(t)
    \/ LeaderRelease(t)
    \/ AwaitCompletion(t)

GCNext == \E t \in Threads : GCStep(t)

(***************************************************************************)
(* Part II.  Database, ReadTx, WriteTx                                     *)
(*                                                                         *)
(* Keys and values are drawn from small sets of byte strings of one        *)
(* length, so every entry takes the same number of bytes in the file and   *)
(* the data region is a sequence of entry cells behind the entry count     *)
(* (has_count: the file is long enough to hold the count).                 *)
(* Offsets into the data region are counted in cells: data_end_offset = n  *)
(* stands for the byte offset 2 * PAGE_SIZE + 8 + n * (bytes per entry).   *)
(***************************************************************************)
\* commits attempted (WriteTx::commit calls)
MaxCommits == 2
\* crashes of the process or of the machine
MaxCrashes == 1

Keys == {1, 2}
Vals == {"a", "b"}
\* The (key, value) pairs the transactions put.
Puts == {<<1, "a">>, <<1, "b">>, <<2, "a">>}

\* The BTree with no entry; tr[k] = None when k is absent.
EmptyTree == [k \in Keys |-> None]

\* Meta::new(): the meta of a new database.
NewMeta == [txid |-> 0, root |-> 0]

\* A meta slot of the file: the page parses, it validates, and its fields.
Slot(m) == [parsed |-> TRUE, valid |-> TRUE, txid |-> m.txid, root |-> m.root]

\* BTree::len().
TreeLen(tr) == Cardinality({k \in Keys : tr[k] # None})

\* BTree::iter(): the entries in ascending key order.
RECURSIVE IterFrom(_, _)
IterFrom(tr, k) ==
    IF k \notin Keys THEN <<>>
    ELSE (IF tr[k] = None THEN <<>> ELSE << <<k, tr[k]>> >>) \o IterFrom(tr, k + 1)
TreeIter(tr) == IterFrom(tr, 1)

\* BTree::insert of every entry of a sequence, in order.
RECURSIVE InsertAll(_, _)
InsertAll(tr, es) ==
    IF es = <<>> THEN tr
    ELSE InsertAll([tr EXCEPT ![es[1][1]] = es[1][2]], Tail(es))

(***************************************************************************)
(* Database::load_meta and Database::load_tree                             *)
(***************************************************************************)
\* The selection of load_meta with "m1.txid >= m0.txid" in place of ">", and
\* with the comparison the wrong way round.
LoadMetaPrefersOlder(s0, s1) ==
    IF s0.parsed /\ s1.parsed THEN
        IF ~s0.valid /\ ~s1.valid THEN [err |-> "BothMetaPagesInvalid"]
        ELSE IF ~s0.valid THEN [err |-> "Ok", slot |-> 1]
        ELSE IF ~s1.valid THEN [err |-> "Ok", slot |-> 0]
        ELSE IF s1.txid < s0.txid THEN [err |-> "Ok", slot |-> 1]
        ELSE [err |-> "Ok", slot |-> 0]
    ELSE IF s0.parsed THEN
        IF s0.valid THEN [err |-> "Ok", slot |-> 0] ELSE [err |-> "InvalidMetaPage"]
    ELSE IF s1.parsed THEN
        IF s1.valid THEN [err |-> "Ok", slot |-> 1] ELSE [err |-> "InvalidMetaPage"]
    ELSE [err |-> "BothMetaPagesInvalid"]

\* load_meta, lines 205-246: which slot is used, or the error.
LoadMeta(s0, s1) ==
    IF s0.parsed /\ s1.parsed THEN
        IF ~s0.valid /\ ~s1.valid THEN [err |-> "BothMetaPagesInvalid"]
        ELSE IF ~s0.valid THEN [err |-> "Ok", slot |-> 1]
        ELSE IF ~s1.valid THEN [err |-> "Ok", slot |-> 0]
        ELSE IF s1.txid > s0.txid THEN [err |-> "Ok", slot |-> 1]
        ELSE [err |-> "Ok", slot |-> 0]
    ELSE IF s0.parsed THEN
        IF s0.valid THEN [err |-> "Ok", slot |-> 0] ELSE [err |-> "InvalidMetaPage"]
    ELSE IF s1.parsed THEN
        IF s1.valid THEN [err |-> "Ok", slot |-> 1] ELSE [err |-> "InvalidMetaPage"]
    ELSE [err |-> "BothMetaPagesInvalid"]

\* load_tree: the tree, the end offset and the entry count read from the
\* data region of f under meta m, or the error.
LoadTree(f, m) ==
    IF m.root = 0 THEN
        [err |-> "Ok", tree |-> EmptyTree, data_end |-> 0, count |-> 0]
    ELSE IF ~f.has_count THEN
        [err |-> "Ok", tree |-> EmptyTree, data_end |-> 0, count |-> 0]
    ELSE IF f.count > Len(f.entries) THEN
        [err |-> "EntryReadFailed"]
    ELSE
        [err |-> "Ok",
         tree |-> InsertAll(EmptyTree, SubSeq(f.entries, 1, f.count)),
         data_end |-> f.count,
         count |-> f.count]

\* Database::open of an existing file f: load_meta, then load_tree.
OpenFile(f) ==
    LET sel == LoadMeta(f.meta[1], f.meta[2]) IN
    IF sel.err # "Ok" THEN [err |-> sel.err]
    ELSE LET m == f.meta[sel.slot + 1]
             ld == LoadTree(f, m) IN
         IF ld.err # "Ok" THEN [err |-> ld.err]
         ELSE [err |-> "Ok", meta |-> [txid |-> m.txid, root |-> m.root],
               tree |-> ld.tree, data_end |-> ld.data_end, count |-> ld.count]

(***************************************************************************)
(* The state after Database::open on a path with no file: init_db has      *)
(* written the two meta pages and synced them.                             *)
(***************************************************************************)
NewFile == [meta |-> <<Slot(NewMeta), Slot(NewMeta)>>, has_count |-> FALSE,
            count |-> 0, entries |-> <<>>]

\* The value of before_tx while no transaction is open, dropped or failed.
NoSnapshot == <<EmptyTree, NewMeta, NewFile, NewFile>>

DBInit ==
    /\ db = "open"
    /\ tree = EmptyTree
    /\ meta = NewMeta
    /\ data_end_offset = 0
    /\ persisted_entry_count = 0
    /\ file = NewFile
    /\ disk = NewFile
    /\ tx = "none"
    /\ tx_pending = EmptyTree
    /\ tx_deleted = <<>>
    /\ ppc = "idle"
    /\ pidx = 0
    /\ open_result = "Ok"
    /\ attempts = 0
    /\ crashes = 0
    /\ commits_ok = 0
    /\ last_op = [k \in Keys |-> None]
    /\ before_tx = NoSnapshot
    /\ last_ok_tree = EmptyTree
    /\ since_ok = "clean"
    /\ interrupted_tree = EmptyTree

\* ReadTx::get.
ReadGet(k) == tree[k]

\* Database::write_tx / WriteTx::new.
BeginWrite ==
    /\ UNCHANGED dbOthers
    /\ db = "open"
    /\ tx \notin {"open", "committing"}
    /\ tx' = "open"
    /\ tx_pending' = EmptyTree
    /\ tx_deleted' = <<>>
    /\ UNCHANGED attempts
    /\ last_op' = [k \in Keys |-> None]
    /\ before_tx' = IF tx = "dropped" THEN before_tx ELSE <<tree, meta, file, disk>>
    /\ UNCHANGED <<db, tree, meta, data_end_offset, persisted_entry_count, file,
                   disk, ppc, pidx, open_result, crashes, commits_ok,
                   last_ok_tree, since_ok, interrupted_tree>>

\* A put that leaves the deleted list as it is.
RetainAll(q, k) == q

\* Vec::retain(|x| x != k).
Retain(q, k) == SelectSeq(q, LAMBDA x : x # k)

\* A put that writes through to the database's tree.
PutWritesThrough(k, v) == [tree EXCEPT ![k] = v]

\* The database's tree after WriteTx::put: put touches self.deleted and
\* self.pending only.
TreeAfterPut(k, v) == tree

\* WriteTx::put.
Put(k, v) ==
    /\ UNCHANGED dbOthers
    /\ tx = "open"
    /\ tx_deleted' = Retain(tx_deleted, k)
    /\ tx_pending' = [tx_pending EXCEPT ![k] = v]
    /\ tree' = TreeAfterPut(k, v)
    /\ last_op' = [last_op EXCEPT ![k] = v]
    /\ UNCHANGED <<db, meta, data_end_offset, persisted_entry_count, file, disk,
                   tx, ppc, pidx, open_result, attempts, crashes, commits_ok,
                   before_tx, last_ok_tree, since_ok,
                   interrupted_tree>>

\* A delete that forgets to drop the staged put of the key.
PendingAfterDeleteKeepsPut(k) == tx_pending

\* WriteTx.pending after WriteTx::delete: self.pending.remove(key).
PendingAfterDelete(k) == [tx_pending EXCEPT ![k] = None]

\* WriteTx::delete.
Delete(k) ==
    /\ UNCHANGED dbOthers
    /\ tx = "open"
    /\ tx_pending' = PendingAfterDelete(k)
    /\ tx_deleted' = IF \E i \in 1..Len(tx_deleted) : tx_deleted[i] = k
                     THEN tx_deleted ELSE Append(tx_deleted, k)
    /\ last_op' = [last_op EXCEPT ![k] = "deleted"]
    /\ UNCHANGED <<db, tree, meta, data_end_offset, persisted_entry_count, file,
                   disk, tx, ppc, pidx, open_result, attempts, crashes, commits_ok,
                   before_tx, last_ok_tree, since_ok,
                   interrupted_tree>>

\* Drop of a WriteTx that was not committed: nothing to do.
DropTx ==
    /\ UNCHANGED dbOthers
    /\ tx = "open"
    /\ tx' = "dropped"
    /\ tx_pending' = EmptyTree
    /\ tx_deleted' = <<>>
    /\ UNCHANGED <<db, tree, meta, data_end_offset, persisted_entry_count, file,
                   disk, ppc, pidx, open_result, attempts, crashes, commits_ok,
                   last_op, before_tx, last_ok_tree, since_ok,
                   interrupted_tree>>

\* The loops of WriteTx::commit: the deletions, then the insertions.
ApplyStaged(tr, del, pend) ==
    [k \in Keys |->
        IF pend[k] # None THEN pend[k]
        ELSE IF \E i \in 1..Len(del) : del[i] = k THEN None
        ELSE tr[k]]

\* WriteTx::commit up to its call of persist_tree, and persist_tree's seek
\* to the data section.
CommitApply ==
    /\ UNCHANGED dbOthers
    /\ tx = "open"
    /\ attempts < MaxCommits
    /\ attempts' = attempts + 1
    /\ tx' = "committing"
    /\ tree' = ApplyStaged(tree, tx_deleted, tx_pending)
    /\ ppc' = "data"
    /\ pidx' = 0
    /\ since_ok' = "dirty"
    /\ UNCHANGED <<db, meta, data_end_offset, persisted_entry_count, file, disk,
                   tx_pending, tx_deleted, open_result, crashes, commits_ok,
                   last_op, before_tx, last_ok_tree,
                   interrupted_tree>>

\* The items persist_tree writes to the data region: the count, the entries.
PersistItems == <<TreeLen(tree)>> \o TreeIter(tree)

\* The file with item i of persist_tree written: item 1 is the entry count,
\* item i + 1 is written over entry cell i.
WriteItem(f, i, item) ==
    IF i = 1 THEN [f EXCEPT !.has_count = TRUE, !.count = item]
    ELSE IF i - 1 <= Len(f.entries)
         THEN [f EXCEPT !.entries = [f.entries EXCEPT ![i - 1] = item]]
         ELSE [f EXCEPT !.entries = Append(f.entries, item)]

\* commit() returns Err(TxCommitFailed): the WriteTx is gone.
CommitFails ==
    /\ tx' = "failed"
    /\ ppc' = "idle"
    /\ pidx' = 0
    /\ since_ok' = "dirty"
    /\ tx_pending' = EmptyTree
    /\ tx_deleted' = <<>>
    /\ last_op' = [k \in Keys |-> None]

\* persist_tree: the writer passes the next item on to the file.  The
\* BufWriter hands its bytes to the file in the order written, at the latest
\* in flush(), so the file always holds a prefix of the items.
PersistWrite ==
    /\ UNCHANGED dbOthers
    /\ ppc = "data"
    /\ pidx < Len(PersistItems)
    /\ file' = WriteItem(file, pidx + 1, PersistItems[pidx + 1])
    /\ pidx' = pidx + 1
    /\ UNCHANGED <<db, tree, meta, data_end_offset, persisted_entry_count, disk,
                   tx, tx_pending, tx_deleted, ppc, open_result, attempts, crashes,
                   commits_ok, last_op, before_tx, last_ok_tree,
                   since_ok, interrupted_tree>>

\* persist_tree: the seek, a write_all or the flush fails; the error returns
\* before the tracking info and the meta are touched.
PersistWriteFails ==
    /\ UNCHANGED dbOthers
    /\ ppc = "data"
    /\ CommitFails
    /\ UNCHANGED <<db, tree, meta, data_end_offset, persisted_entry_count, file,
                   disk, open_result, attempts, crashes, commits_ok, before_tx, last_ok_tree, interrupted_tree>>

\* The meta page written for txid t: page 0 for an even t, page 1 for odd.
MetaPage(t) == IF t % 2 = 0 THEN 0 ELSE 1

\* persist_tree, lines 458-486: the tracking info and the meta are updated
\* and the meta is written to its page.
PersistMeta ==
    /\ UNCHANGED dbOthers
    /\ ppc = "data"
    /\ pidx = Len(PersistItems)
    /\ data_end_offset' = TreeLen(tree)
    /\ persisted_entry_count' = TreeLen(tree)
    /\ meta' = [txid |-> meta.txid + 1,
                root |-> IF TreeLen(tree) = 0 THEN 0 ELSE 1]
    /\ file' = [file EXCEPT !.meta[MetaPage(meta'.txid) + 1] = Slot(meta')]
    /\ ppc' = "sync"
    /\ UNCHANGED <<db, tree, disk, tx, tx_pending, tx_deleted, pidx, open_result,
                   attempts, crashes, commits_ok, last_op, before_tx,
                   last_ok_tree, since_ok, interrupted_tree>>

\* persist_tree, lines 458-486: the same, but the seek to the meta page or
\* its write fails.
PersistMetaFails ==
    /\ UNCHANGED dbOthers
    /\ ppc = "data"
    /\ pidx = Len(PersistItems)
    /\ data_end_offset' = TreeLen(tree)
    /\ persisted_entry_count' = TreeLen(tree)
    /\ meta' = [txid |-> meta.txid + 1,
                root |-> IF TreeLen(tree) = 0 THEN 0 ELSE 1]
    /\ CommitFails
    /\ UNCHANGED <<db, tree, file, disk, open_result, attempts, crashes, commits_ok,
                   before_tx, last_ok_tree, interrupted_tree>>

\* An fdatasync that returns without having written anything back.
FdatasyncSkipped(f, d) == d

\* Database::fdatasync returning 0: what is durable is the file as written.
Fdatasync(f, d) == f

\* persist_tree's fdatasync succeeds; persist_tree and commit return Ok.
PersistSync ==
    /\ UNCHANGED dbOthers
    /\ ppc = "sync"
    /\ disk' = Fdatasync(file, disk)
    /\ tx' = "committed"
    /\ ppc' = "idle"
    /\ pidx' = 0
    /\ commits_ok' = commits_ok + 1
    /\ last_ok_tree' = tree
    /\ since_ok' = "clean"
    /\ before_tx' = NoSnapshot
    /\ tx_pending' = EmptyTree
    /\ tx_deleted' = <<>>
    /\ UNCHANGED <<db, tree, meta, data_end_offset, persisted_entry_count, file,
                   open_result, attempts, crashes, last_op, interrupted_tree>>

\* persist_tree's fdatasync fails; commit returns Err(TxCommitFailed).
PersistSyncFails ==
    /\ UNCHANGED dbOthers
    /\ ppc = "sync"
    /\ CommitFails
    /\ UNCHANGED <<db, tree, meta, data_end_offset, persisted_entry_count, file,
                   disk, open_result, attempts, crashes, commits_ok, before_tx, last_ok_tree, interrupted_tree>>

\* The process is killed (the file keeps every write made) or the machine
\* loses power (the file falls back to what was synced): the Database and
\* the WriteTx are gone.
Crash ==
    /\ UNCHANGED dbOthers
    /\ db = "open"
    /\ crashes < MaxCrashes
    /\ \E kind \in {"process", "power"} :
         /\ file' = IF kind = "power" THEN disk ELSE file
         /\ disk' = disk
    /\ db' = "closed"
    /\ crashes' = crashes + 1
    /\ interrupted_tree' = IF tx = "committing" THEN tree ELSE EmptyTree
    /\ since_ok' = IF tx = "committing" THEN "interrupted" ELSE since_ok
    /\ before_tx' = NoSnapshot
    /\ tree' = EmptyTree
    /\ meta' = NewMeta
    /\ data_end_offset' = 0
    /\ persisted_entry_count' = 0
    /\ tx' = "none"
    /\ tx_pending' = EmptyTree
    /\ tx_deleted' = <<>>
    /\ ppc' = "idle"
    /\ pidx' = 0
    /\ open_result' = None
    /\ last_op' = [k \in Keys |-> None]
    /\ UNCHANGED <<attempts, commits_ok, last_ok_tree>>

\* Database::open on the existing file.
Open ==
    /\ UNCHANGED dbOthers
    /\ db = "closed"
    /\ open_result = None
    /\ LET o == OpenFile(file) IN
         /\ open_result' = o.err
         /\ IF o.err = "Ok"
            THEN /\ db' = "open"
                 /\ tree' = o.tree
                 /\ meta' = o.meta
                 /\ data_end_offset' = o.data_end
                 /\ persisted_entry_count' = o.count
            ELSE UNCHANGED <<db, tree, meta, data_end_offset,
                             persisted_entry_count>>
    /\ UNCHANGED <<file, disk, tx, tx_pending, tx_deleted, ppc, pidx, attempts,
                   crashes, commits_ok, last_op, before_tx,
                   last_ok_tree, since_ok, interrupted_tree>>

DBNext ==
    \/ BeginWrite
    \/ \E kv \in Puts : Put(kv[1], kv[2])
    \/ \E k \in Keys : Delete(k)
    \/ DropTx
    \/ CommitApply
    \/ PersistWrite
    \/ PersistWriteFails
    \/ PersistMeta
    \/ PersistMetaFails
    \/ PersistSync
    \/ PersistSyncFails
    \/ Crash
    \/ Open

(***************************************************************************)
(* The incremental persist path: Database::persist_incremental called by   *)
(* a writer that, like WriteTx::commit, applies its deletions and its new   *)
(* entries to the tree and then persists, and does nothing more when the   *)
(* call returns Err.  One call is one step; where it fails, if it does, is *)
(* chosen freely among the points at which the code returns an error.      *)
(***************************************************************************)
\* persist_incremental calls of one run
MaxPersists == 2

\* The new entries handed to one call, and the keys deleted before it.
Batches == {<<>>, << <<1, "a">> >>, << <<1, "b">> >>, << <<2, "a">> >>,
            << <<1, "a">>, <<2, "a">> >>, << <<2, "a">>, <<1, "b">> >>}
Deletions == {{}, {1}, {2}}

\* Where a call fails: nowhere, in the writes of the data (the BufWriter and
\* its flush), in the write of the entry count, in the write of the meta
\* page, in fdatasync.
FailPoints == {"none", "data", "count", "meta", "sync"}

\* BTree::remove of every key of a set.
RemoveAll(tr, ks) == [k \in Keys |-> IF k \in ks THEN None ELSE tr[k]]

\* The items persist_tree writes for tree tr: the count, then the entries.
ItemsOf(tr) == <<TreeLen(tr)>> \o TreeIter(tr)

\* The file with the first n items of persist_tree written.
RECURSIVE WriteItems(_, _, _)
WriteItems(f, items, n) ==
    IF n = 0 THEN f
    ELSE WriteItem(WriteItems(f, items, n - 1), n, items[n])

\* The file with entry e written into cell i.  A write behind an entry count
\* that was never written leaves a hole there, which reads as zero.
WriteEntry(f, i, e) ==
    LET g == IF f.has_count THEN f ELSE [f EXCEPT !.has_count = TRUE, !.count = 0] IN
    IF i <= Len(g.entries)
    THEN [g EXCEPT !.entries = [g.entries EXCEPT ![i] = e]]
    ELSE [g EXCEPT !.entries = Append(g.entries, e)]

\* The file with the first n entries of es written behind cell pos.
RECURSIVE AppendEntries(_, _, _, _)
AppendEntries(f, pos, es, n) ==
    IF n = 0 THEN f
    ELSE WriteEntry(AppendEntries(f, pos, es, n - 1), pos + n, es[n])

\* What a persist call leaves: the file, the fields of the Database and
\* whether it returned Ok.
Outcome(f, m, end, count, ok) ==
    [file |-> f, meta |-> m, data_end |-> end, count |-> count, ok |-> ok]

\* The file with meta m written to the page of its txid.
WriteMeta(f, m) == [f EXCEPT !.meta[MetaPage(m.txid) + 1] = Slot(m)]

\* persist_tree as one step, for tree tr, failing at point fail after n
\* items (fail = "data").
PersistTreeOutcome(f, tr, m, end, count, fail, n) ==
    LET items == ItemsOf(tr)
        m2 == [txid |-> m.txid + 1, root |-> IF TreeLen(tr) = 0 THEN 0 ELSE 1]
        written == WriteItems(f, items, Len(items))
    IN  IF fail = "data" THEN Outcome(WriteItems(f, items, n), m, end, count, FALSE)
        ELSE IF fail = "meta" THEN Outcome(written, m2, TreeLen(tr), TreeLen(tr), FALSE)
        ELSE Outcome(WriteMeta(written, m2), m2, TreeLen(tr), TreeLen(tr), fail = "none")

\* sync_meta_only: the root of the meta stays as it is.
SyncMetaOnlyOutcome(f, m, end, count, fail) ==
    LET m2 == [txid |-> m.txid + 1, root |-> m.root] IN
    IF fail = "meta" THEN Outcome(f, m2, end, count, FALSE)
    ELSE Outcome(WriteMeta(f, m2), m2, end, count, fail = "none")

\* persist_incremental(es, has_deletions) as one step.
PersistIncrementalOutcome(f, tr, m, end, count, es, has_deletions, fail, n) ==
    IF has_deletions THEN PersistTreeOutcome(f, tr, m, end, count, fail, n)
    ELSE IF es = <<>> THEN SyncMetaOnlyOutcome(f, m, end, count, fail)
    ELSE LET total == count + Len(es)
             m2 == [txid |-> m.txid + 1, root |-> 1]
             appended == AppendEntries(f, end, es, Len(es))
             counted == [appended EXCEPT !.has_count = TRUE, !.count = total]
         IN  IF fail = "data" THEN Outcome(AppendEntries(f, end, es, n), m, end, count, FALSE)
             ELSE IF fail = "count" THEN Outcome(appended, m, end, count, FALSE)
             ELSE IF fail = "meta" THEN Outcome(counted, m2, end + Len(es), total, FALSE)
             ELSE Outcome(WriteMeta(counted, m2), m2, end + Len(es), total, fail = "none")

\* The failure points a call passes, and the items it may have written
\* when it fails in the data.
PointsOf(es, has_deletions) ==
    IF has_deletions THEN FailPoints \ {"count"}
    ELSE IF es = <<>> THEN {"none", "meta", "sync"}
    ELSE FailPoints
DataItems(tr, es, has_deletions) ==
    IF has_deletions THEN Len(ItemsOf(tr)) ELSE Len(es)

\* The writer removes the keys of del from the tree, inserts the entries
\* es and calls persist_incremental(es, del is not empty).
PersistIncrementalCall(del, es, fail, n) ==
    /\ UNCHANGED dbOthers
    /\ db = "open"
    /\ attempts < MaxPersists
    /\ fail \in PointsOf(es, del # {})
    /\ n = 0 \/ fail = "data"
    /\ LET tr == InsertAll(RemoveAll(tree, del), es)
           o == PersistIncrementalOutcome(file, tr, meta, data_end_offset,
                                          persisted_entry_count, es, del # {}, fail, n)
       IN  /\ n <= DataItems(tr, es, del # {})
           /\ tree' = tr
           /\ file' = o.file
           /\ meta' = o.meta
           /\ data_end_offset' = o.data_end
           /\ persisted_entry_count' = o.count
           /\ disk' = IF o.ok THEN o.file ELSE disk
           /\ tx' = IF o.ok THEN "committed" ELSE "failed"
           /\ commits_ok' = IF o.ok THEN commits_ok + 1 ELSE commits_ok
    /\ attempts' = attempts + 1
    /\ UNCHANGED <<db, tx_pending, tx_deleted, ppc, pidx, open_result, crashes,
                   last_op, before_tx, last_ok_tree, since_ok, interrupted_tree>>

\* The Database is dropped and the file is opened again.
Reopen ==
    /\ UNCHANGED dbOthers
    /\ db = "open"
    /\ tx # "none"
    /\ LET o == OpenFile(file) IN
         /\ open_result' = o.err
         /\ IF o.err = "Ok"
            THEN /\ tree' = o.tree
                 /\ meta' = o.meta
                 /\ data_end_offset' = o.data_end
                 /\ persisted_entry_count' = o.count
                 /\ UNCHANGED db
            ELSE /\ db' = "closed"
                 /\ UNCHANGED <<tree, meta, data_end_offset, persisted_entry_count>>
    /\ tx' = "none"
    /\ UNCHANGED <<file, disk, tx_pending, tx_deleted, ppc, pidx, attempts,
                   crashes, commits_ok, last_op, before_tx,
                   last_ok_tree, since_ok, interrupted_tree>>

IncNext ==
    \/ \E del \in Deletions, es \in Batches, fail \in FailPoints, n \in 0..3 :
          PersistIncrementalCall(del, es, fail, n)
    \/ Reopen

(***************************************************************************)
(* Claims about the group-commit coordinator.                              *)
(***************************************************************************)

\* C1: commit() returns Ok to a caller only after a wal.sync() that began
\* after the caller's entry was enqueued has completed successfully, so that
\* the caller's record, appended before the enqueue, is durable.
C1_OkOnlyAfterCoveringSync ==
    \A t \in Threads :
        result[t] = "Ok" => (covered[t] /\ lsn[t] < wal.synced)

\* A non-leader that enqueued while a leader was active has returned Ok.
C1_Witness ==
    \E t \in Threads :
        /\ result[t] = "Ok"
        /\ taken_by[t] \notin {t, None}
        /\ covered[t]

\* C2: every commit() call eventually returns without a further commit()
\* call arriving: the coordinator never comes to rest (no step of any thread
\* possible) while a call is still blocked in commit().
C2_EveryCommitReturns ==
    (ENABLED GCNext) \/ (\A t \in Threads : pc[t] = "idle")

\* C3: the outcome of a batch is that of its leader's sync, for every commit
\* of the batch: all Ok after a successful sync, all GroupCommitFailed after
\* a failed one.
C3_BatchOutcomeUniform ==
    \A t \in Threads :
        /\ result[t] # None => result[t] = MapSyncResult(batch_sync[t])
        /\ completion[t] # None => completion[t] = MapSyncResult(batch_sync[t])

\* A batch of a leader and a non-leader whose sync failed: both have
\* returned GroupCommitFailed.
C3_Witness ==
    \E t, u \in Threads :
        /\ t # u
        /\ taken_by[t] = t /\ taken_by[u] = t
        /\ batch_sync[t] = "Err"
        /\ result[t] = GroupCommitFailed /\ result[u] = GroupCommitFailed

\* C24: in every state of the coordinator outside its critical sections,
\* leader_active = false implies that the pending queue is empty: no queued
\* commit is left without an active leader responsible for flushing it.
C24_NoPendingWithoutLeader ==
    ~leader_active => pending = <<>>

\* C28: the number of commits flushed by one leader sync (one batch) never
\* exceeds max_batch_size, however the committers enqueue while the leader
\* waits for its batch conditions.
C28_BatchWithinMaxBatchSize ==
    \A t \in Threads :
        pc[t] \in {"sync", "syncing"} => Len(pending_commits[t]) <= MaxBatchSize

\* The threads inside run_leader.
Leaders == {t \in Threads : pc[t] \in {"leader_poll", "take", "sync", "syncing", "notify"}}

\* C25: each enqueued PendingCommit is taken by exactly one leader and has
\* its completion slot written exactly once; each leader round takes the
\* whole queue and calls wal.sync() exactly once, so batch_count equals the
\* number of wal.sync() calls the coordinator has made.  An entry still in
\* the queue when the coordinator has come to rest was taken by no leader.
C25_TakenAndNotifiedOnce ==
    /\ \A t \in Threads :
          /\ takes[t] <= 1 /\ writes[t] <= takes[t]
          /\ result[t] # None => (takes[t] = 1 /\ writes[t] = 1)
          /\ pc[t] = "sync" => Entries(pending) \cap Entries(pending_commits[t]) = {}
    /\ batch_count + Cardinality({t \in Threads : pc[t] = "syncing"}) = sync_calls
    /\ (~ENABLED GCNext) => \A t \in InFlight : takes[t] = 1

\* C26: at most one thread is leader at any time: a thread enters
\* run_leader only if it saw leader_active = false and set it in the same
\* critical section, and only that thread clears it, at the end of
\* run_leader; so no two wal.sync() calls of the coordinator overlap.
C26_AtMostOneLeader ==
    /\ Cardinality(Leaders) <= 1
    /\ leader_active <=> Leaders # {}
    /\ Cardinality({t \in Threads : pc[t] \in {"sync", "syncing"}}) <= 1

\* A leader is inside wal.sync() while another committer, which found
\* leader_active set, waits in the queue.
C26_Witness ==
    \E t, u \in Threads :
        /\ pc[t] = "syncing"
        /\ pc[u] = "wait" /\ u \in Entries(pending)

\* C27: every batch a leader takes is non-empty and holds the leader's own
\* entry: the queue is never empty when the leader polls it, the leader's
\* slot is written when run_leader returns, and the number of wal.sync()
\* calls never exceeds the number of commit() calls.
C27_BatchHoldsLeadersEntry ==
    /\ \A t \in Threads :
          /\ pc[t] \in {"leader_poll", "take"} => t \in Entries(pending)
          /\ pc[t] \in {"sync", "syncing"} => t \in Entries(pending_commits[t])
          /\ pc[t] \in {"sync", "syncing", "notify"} => taken_by[t] = t
          /\ (pc[t] = "wait" /\ taken_by[t] = t) => completion[t] # None
    /\ sync_calls <= calls

\* A new leader has taken a batch that holds an older entry, left in the
\* queue by the leader before it, in front of its own.
C27_Witness ==
    \E t, u \in Threads :
        /\ pc[t] = "sync"
        /\ pending_commits[t] = <<u, t>>
        /\ batch_count = 1

\* C29: a failed wal.sync() does not wedge the coordinator: leader_active
\* is reset although the sync failed, the entries of the failed batch are
\* no longer in the queue, and a commit() that starts afterwards and finds
\* no leader becomes leader and returns Ok if its own sync succeeds.
C29_FailedSyncDoesNotWedge ==
    /\ Leaders = {} => ~leader_active
    /\ \A t \in Threads :
          /\ batch_sync[t] = "Err" => t \notin Entries(pending)
          /\ (after_failure[t] /\ pc[t] = "wait" /\ taken_by[t] = None) =>
                (t \in Entries(pending) /\ takes[t] = 0)
          /\ (after_failure[t] /\ taken_by[t] = t /\ batch_sync[t] = "Ok"
                /\ result[t] # None) => result[t] = "Ok"

\* A commit() that started after a failed batch was released has led a
\* batch of its own and returned Ok.
C29_Witness ==
    \E t \in Threads :
        /\ after_failure[t]
        /\ taken_by[t] = t
        /\ result[t] = "Ok"

(***************************************************************************)
(* Claims about the database and its transactions.                         *)
(***************************************************************************)

\* C4: once commit() has returned Ok, a crash followed by Database::open
\* succeeds and yields the working set as it was after that commit, whatever
\* transactions were committed, dropped or failed before it.
C4_CommittedStateSurvivesCrash ==
    (since_ok = "clean" /\ crashes > 0 /\ open_result # None) =>
        (open_result = "Ok" /\ db = "open" /\ tree = last_ok_tree)

\* The database was reopened after a crash that followed the second
\* successful commit, and holds a non-empty working set.
C4_Witness ==
    /\ since_ok = "clean"
    /\ crashes > 0
    /\ open_result = "Ok"
    /\ commits_ok = 2
    /\ tree # EmptyTree

\* C5: after a crash at any point during commit(), Database::open succeeds
\* and yields either the working set of the last commit that returned Ok or
\* the working set of the interrupted commit, never an error and never a
\* mixture of the two.  Stated for the runs in which every commit before the
\* interrupted one returned Ok.
C5_CrashDuringCommitIsAtomic ==
    (since_ok = "interrupted" /\ open_result # None /\ attempts = commits_ok + 1) =>
        (open_result = "Ok" /\ tree \in {last_ok_tree, interrupted_tree})

\* C6: when commit() returns Err the transaction is rolled back: read
\* transactions that follow see the working set from before the failed
\* transaction.
C6_FailedCommitRolledBack ==
    tx = "failed" => \A k \in Keys : ReadGet(k) = before_tx[1][k]

\* C7: after the puts and deletes of one transaction and its successful
\* commit, get returns for every key the transaction touched the value of
\* its last put, or None when its last operation was a delete.
C7_ReadYourCommit ==
    tx = "committed" =>
        \A k \in Keys :
            last_op[k] # None =>
                ReadGet(k) = (IF last_op[k] = "deleted" THEN None ELSE last_op[k])

\* The second commit returned Ok for a transaction whose last operation was
\* a delete for key 1 and a put for key 2.
C7_Witness ==
    /\ tx = "committed"
    /\ commits_ok = 2
    /\ last_op[1] = "deleted"
    /\ last_op[2] = "a"

\* C8: put and delete modify neither the working set nor the file, and a
\* WriteTx dropped without commit leaves the working set, the in-memory meta
\* and the file as they were, however many transactions are dropped in a
\* row.
C8_UncommittedLeavesNoTrace ==
    tx \in {"open", "dropped"} => <<tree, meta, file, disk>> = before_tx

\* A transaction that put key 1 and deleted key 2 was dropped; key 2 is
\* still in the working set.
C8_Witness ==
    /\ tx = "dropped"
    /\ last_op[1] = "b"
    /\ last_op[2] = "deleted"
    /\ tree[2] = "a"

\* C9: after N successful commits on a fresh database the newest valid meta
\* slot has txid N and is slot N mod 2 (every successful commit raises the
\* txid by one and writes the slot the one before it did not).
C9_MetaAlternation ==
    (tx = "committed" /\ crashes = 0) =>
        LET sel == LoadMeta(file.meta[1], file.meta[2]) IN
            /\ sel.err = "Ok"
            /\ file.meta[sel.slot + 1].txid = commits_ok
            /\ sel.slot = commits_ok % 2

\* C30: after any sequence of commit attempts, I/O failures at any step of
\* the persist functions included, the in-memory meta.txid equals the txid
\* of the newest valid meta slot of the file, so that the next commit
\* writes the slot that does not hold the newest valid meta.
C30_MetaTxidIsNewestSlot ==
    (db = "open" /\ ppc = "idle") =>
        LET sel == LoadMeta(file.meta[1], file.meta[2]) IN
            /\ sel.err = "Ok"
            /\ meta.txid = file.meta[sel.slot + 1].txid
            /\ MetaPage(meta.txid + 1) # sel.slot

\* The keys of a Vec of keys.
KeysOf(q) == {q[i] : i \in 1..Len(q)}

\* C32: in every state of an open WriteTx, whatever puts and deletes led to
\* it, no key is both staged in pending and listed in deleted, and deleted
\* lists no key twice.
C32_PendingAndDeletedDisjoint ==
    tx = "open" =>
        /\ \A k \in Keys : tx_pending[k] # None => k \notin KeysOf(tx_deleted)
        /\ Cardinality(KeysOf(tx_deleted)) = Len(tx_deleted)

\* An open WriteTx that stages a put of key 1 and the deletion of key 2: the
\* states reached by put(1), put(2), delete(2) and by delete(1), delete(2),
\* put(1) among others.
C32_Witness ==
    /\ tx = "open"
    /\ tx_pending[1] = "b"
    /\ tx_deleted = <<2>>

\* C33: the incremental persist path is equivalent to the full rewrite:
\* when a persist_incremental call has returned Ok, opening the file loads
\* the working set that a full persist_tree of the in-memory tree would
\* leave in it, and the persisted entry count and the data end offset are
\* those of the entries the file holds.
C33_IncrementalEqualsFullRewrite ==
    (db = "open" /\ tx = "committed") =>
        LET o == OpenFile(file)
            full == PersistTreeOutcome(file, tree, meta, data_end_offset,
                                       persisted_entry_count, "none", 0)
            p == OpenFile(full.file)
        IN  /\ o.err = "Ok" /\ p.err = "Ok"
            /\ o.tree = p.tree
            /\ o.count = persisted_entry_count
            /\ o.data_end = data_end_offset

\* C33 for the runs in which no call has failed.
IncrementalEqualsFullRewriteWithoutFailures ==
    attempts = commits_ok => C33_IncrementalEqualsFullRewrite

\* The working set a commit leaves when it changes the staged keys only: the
\* working set tr with the last operation of the transaction on each key.
WithStaged(tr, ops) ==
    [k \in Keys |->
        IF ops[k] = None THEN tr[k]
        ELSE IF ops[k] = "deleted" THEN None
        ELSE ops[k]]

\* C31: a successful commit changes only the keys staged in its transaction,
\* so that after every commit that returns Ok each key reads as the value
\* from the last committed transaction that wrote it (None if it deleted
\* it): the working set is that of the commit that returned Ok before it,
\* with the operations of this transaction applied.
C31_CommitChangesStagedKeysOnly ==
    [][(tx = "committing" /\ tx' = "committed")
          => tree' = WithStaged(last_ok_tree, last_op)]_dbVars

\* The step of C31 measured from the working set the transaction found when
\* it began, whatever left it: a successful commit changes the staged keys
\* only.
FrameOfOneCommit ==
    [][(tx = "committing" /\ tx' = "committed")
          => tree' = WithStaged(before_tx[1], last_op)]_dbVars

(***************************************************************************)
(* Part III.  Database::load_meta as a function of the two meta pages      *)
(***************************************************************************)
\* the largest txid of a meta page
MaxTxid == 2

\* What Meta::from_bytes returns for a page: None (parsed = FALSE), or a
\* Meta with its txid and root, for which validate() says valid.
Unparsed == [parsed |-> FALSE, valid |-> FALSE, txid |-> 0, root |-> 0]
MetaPages ==
    {Unparsed} \cup
    [parsed : {TRUE}, valid : BOOLEAN, txid : 0..MaxTxid, root : {0, 1}]

NotReturned == [err |-> "NotReturned"]

\* The state of Part III while another part runs.
LMIdle ==
    /\ lm_meta0 = Unparsed
    /\ lm_meta1 = Unparsed
    /\ lm_result = NotReturned

\* A file with any two meta pages, load_meta not yet called.
LMInit ==
    /\ lm_meta0 \in MetaPages
    /\ lm_meta1 \in MetaPages
    /\ lm_result = NotReturned

\* Database::load_meta on the file.
LoadMetaCall ==
    /\ UNCHANGED lmOthers
    /\ lm_result = NotReturned
    /\ lm_result' = LoadMeta(lm_meta0, lm_meta1)
    /\ UNCHANGED <<lm_meta0, lm_meta1>>

LMNext == LoadMetaCall

\* The slots of the file load_meta was called on that parse and validate.
ValidSlots ==
    {i \in {0, 1} : LET m == IF i = 0 THEN lm_meta0 ELSE lm_meta1
                     IN m.parsed /\ m.valid}

SlotTxid(i) == IF i = 0 THEN lm_meta0.txid ELSE lm_meta1.txid

\* C10: load_meta returns a valid slot with the largest txid among the
\* valid slots (the only valid slot when there is one), and returns
\* BothMetaPagesInvalid or InvalidMetaPage when no slot is valid.
C10_LoadMetaPicksNewestValid ==
    lm_result # NotReturned =>
        IF ValidSlots = {}
        THEN lm_result.err \in {"BothMetaPagesInvalid", "InvalidMetaPage"}
        ELSE /\ lm_result.err = "Ok"
             /\ lm_result.slot \in ValidSlots
             /\ \A j \in ValidSlots : SlotTxid(j) <= SlotTxid(lm_result.slot)

\* load_meta was called with two valid pages, page 1 the newer, and chose
\* page 1.
C10_Witness ==
    /\ lm_result.err = "Ok"
    /\ ValidSlots = {0, 1}
    /\ lm_meta1.txid > lm_meta0.txid
    /\ lm_result.slot = 1

(***************************************************************************)
(* Part IV.  CheckpointManager and perform_checkpoint                      *)
(***************************************************************************)
\* CheckpointConfig.interval, in ticks of the clock, scaled down
CkInterval == 2
\* CheckpointConfig.wal_threshold, in units of WAL growth, scaled down
CkWalThreshold == 2
\* CheckpointConfig.min_records, scaled down
CkMinRecords == 2
\* the largest LSN handed to perform_checkpoint
MaxLsn == 2

\* u64::saturating_sub.
SaturatingSub(a, b) == IF a >= b THEN a - b ELSE 0

\* CheckpointManager::new, an empty WAL, no checkpoint under way.
CKInit ==
    /\ ck_has_time = FALSE
    /\ ck_elapsed = 0
    /\ ck_records = 0
    /\ ck_wal_size_at = 0
    /\ ck_last_lsn = 0
    /\ ck_wal_size = 0
    /\ ck_wal_first = 0
    /\ ck_should = "NotCalled"
    /\ ck_pc = "idle"
    /\ ck_lsn = 0
    /\ ck_persist = None
    /\ ck_truncate_called = FALSE
    /\ ck_result = None

\* CheckpointManager::should_checkpoint.
ShouldCheckpoint(has_time, since, records, wal_size, wal_at) ==
    IF has_time /\ since >= CkInterval THEN TRUE
    ELSE IF ~has_time /\ records > 0 THEN records >= CkMinRecords
    ELSE IF SaturatingSub(wal_size, wal_at) >= CkWalThreshold THEN TRUE
    ELSE IF records >= CkMinRecords THEN TRUE
    ELSE FALSE

\* A call of should_checkpoint(&wal).
ShouldCheckpointCall ==
    /\ UNCHANGED ckOthers
    /\ ck_should = "NotCalled"
    /\ ck_should' = IF ShouldCheckpoint(ck_has_time, ck_elapsed, ck_records,
                                        ck_wal_size, ck_wal_size_at)
                    THEN "true" ELSE "false"
    /\ UNCHANGED <<ck_has_time, ck_elapsed, ck_records, ck_wal_size_at,
                   ck_last_lsn, ck_wal_size, ck_wal_first, ck_pc, ck_lsn,
                   ck_persist, ck_truncate_called, ck_result>>

\* Time passes: Instant::elapsed() of last_checkpoint_time grows.
ClockTick ==
    /\ UNCHANGED ckOthers
    /\ ck_has_time
    /\ ck_elapsed < CkInterval
    /\ ck_elapsed' = ck_elapsed + 1
    /\ ck_should' = "NotCalled"
    /\ UNCHANGED <<ck_has_time, ck_records, ck_wal_size_at, ck_last_lsn,
                   ck_wal_size, ck_wal_first, ck_pc, ck_lsn, ck_persist,
                   ck_truncate_called, ck_result>>

\* Records are appended to the WAL: its size grows.
WalGrow ==
    /\ UNCHANGED ckOthers
    /\ ck_wal_size < CkWalThreshold + 1
    /\ ck_wal_size' = ck_wal_size + 1
    /\ ck_should' = "NotCalled"
    /\ UNCHANGED <<ck_has_time, ck_elapsed, ck_records, ck_wal_size_at,
                   ck_last_lsn, ck_wal_first, ck_pc, ck_lsn, ck_persist,
                   ck_truncate_called, ck_result>>

\* CheckpointManager::record_writes(count).
RecordWrites(count) ==
    /\ UNCHANGED ckOthers
    /\ ck_records + count <= CkMinRecords
    /\ ck_records' = ck_records + count
    /\ ck_should' = "NotCalled"
    /\ UNCHANGED <<ck_has_time, ck_elapsed, ck_wal_size_at, ck_last_lsn,
                   ck_wal_size, ck_wal_first, ck_pc, ck_lsn, ck_persist,
                   ck_truncate_called, ck_result>>

\* CheckpointManager::record_checkpoint_with_wal_size(lsn, wal_size), called
\* after a perform_checkpoint that returned Ok.
RecordCheckpoint ==
    /\ UNCHANGED ckOthers
    /\ ck_pc = "idle"
    /\ ck_result = "Ok"
    /\ ck_last_lsn' = ck_lsn
    /\ ck_has_time' = TRUE
    /\ ck_elapsed' = 0
    /\ ck_records' = 0
    /\ ck_wal_size_at' = ck_wal_size
    /\ ck_result' = None
    /\ ck_should' = "NotCalled"
    /\ UNCHANGED <<ck_wal_size, ck_wal_first, ck_pc, ck_lsn, ck_persist,
                   ck_truncate_called>>

\* CheckpointManager::record_checkpoint(lsn), called after a
\* perform_checkpoint that returned Ok: wal_size_at_checkpoint is not
\* assigned.
RecordCheckpointLsn ==
    /\ UNCHANGED ckOthers
    /\ ck_pc = "idle"
    /\ ck_result = "Ok"
    /\ ck_last_lsn' = ck_lsn
    /\ ck_has_time' = TRUE
    /\ ck_elapsed' = 0
    /\ ck_records' = 0
    /\ ck_result' = None
    /\ ck_should' = "NotCalled"
    /\ UNCHANGED <<ck_wal_size_at, ck_wal_size, ck_wal_first, ck_pc, ck_lsn,
                   ck_persist, ck_truncate_called>>

\* perform_checkpoint(checkpoint_lsn, wal, persist_fn) is called.
PerformCheckpointStart(l) ==
    /\ UNCHANGED ckOthers
    /\ ck_pc = "idle"
    /\ l >= ck_last_lsn
    /\ ck_pc' = "persist"
    /\ ck_lsn' = l
    /\ ck_persist' = None
    /\ ck_truncate_called' = FALSE
    /\ ck_result' = None
    /\ ck_should' = "NotCalled"
    /\ UNCHANGED <<ck_has_time, ck_elapsed, ck_records, ck_wal_size_at,
                   ck_last_lsn, ck_wal_size, ck_wal_first>>

\* A perform_checkpoint that goes on to truncate whatever persist_fn said.
AfterPersistIgnoresError(r) == "truncate"

\* "persist_fn()?": go on to truncate_before on Ok, return the error on Err.
AfterPersist(r) == IF r = "Ok" THEN "truncate" ELSE "idle"

\* persist_fn() runs to completion and returns r.
PersistFn(r) ==
    /\ UNCHANGED ckOthers
    /\ ck_pc = "persist"
    /\ ck_persist' = r
    /\ ck_pc' = AfterPersist(r)
    /\ ck_result' = IF AfterPersist(r) = "idle" THEN "PersistErr" ELSE None
    /\ UNCHANGED <<ck_has_time, ck_elapsed, ck_records, ck_wal_size_at,
                   ck_last_lsn, ck_wal_size, ck_wal_first, ck_should, ck_lsn,
                   ck_truncate_called>>

\* wal.truncate_before(checkpoint_lsn) returns Ok: the segments wholly below
\* the LSN are gone; perform_checkpoint returns Ok(CheckpointResult).
TruncateBefore ==
    /\ UNCHANGED ckOthers
    /\ ck_pc = "truncate"
    /\ ck_truncate_called' = TRUE
    /\ ck_wal_first' = IF ck_lsn > ck_wal_first THEN ck_lsn ELSE ck_wal_first
    /\ \E sz \in 0..ck_wal_size : ck_wal_size' = sz
    /\ ck_pc' = "idle"
    /\ ck_result' = "Ok"
    /\ ck_should' = "NotCalled"
    /\ UNCHANGED <<ck_has_time, ck_elapsed, ck_records, ck_wal_size_at,
                   ck_last_lsn, ck_lsn, ck_persist>>

\* wal.truncate_before(checkpoint_lsn) returns Err: perform_checkpoint
\* returns it.
TruncateBeforeFails ==
    /\ UNCHANGED ckOthers
    /\ ck_pc = "truncate"
    /\ ck_truncate_called' = TRUE
    /\ ck_pc' = "idle"
    /\ ck_result' = "TruncateErr"
    /\ UNCHANGED <<ck_has_time, ck_elapsed, ck_records, ck_wal_size_at,
                   ck_last_lsn, ck_wal_size, ck_wal_first, ck_should, ck_lsn,
                   ck_persist>>

CKNext ==
    \/ ShouldCheckpointCall
    \/ ClockTick
    \/ WalGrow
    \/ \E count \in 1..2 : RecordWrites(count)
    \/ RecordCheckpoint
    \/ RecordCheckpointLsn
    \/ \E l \in 1..MaxLsn : PerformCheckpointStart(l)
    \/ \E r \in {"Ok", "Err"} : PersistFn(r)
    \/ TruncateBefore
    \/ TruncateBeforeFails

\* C11: perform_checkpoint calls wal.truncate_before only after persist_fn
\* has run to completion and returned Ok; when persist_fn returns an error
\* perform_checkpoint returns that error and truncate_before is not called.
C11_TruncateOnlyAfterPersist ==
    /\ (ck_pc = "truncate" \/ ck_truncate_called) => ck_persist = "Ok"
    /\ ck_persist = "Err" =>
          (~ck_truncate_called /\ ck_pc = "idle" /\ ck_result = "PersistErr")

\* A perform_checkpoint whose persist_fn failed has returned, after an
\* earlier checkpoint had truncated the WAL up to LSN 1: the WAL still
\* holds everything from LSN 1 on.
C11_Witness ==
    /\ ck_persist = "Err"
    /\ ck_result = "PersistErr"
    /\ ck_lsn = 2
    /\ ck_last_lsn = 1
    /\ ck_wal_first = 1

\* One of the three triggers of a checkpoint holds.
TriggerHolds ==
    \/ ck_has_time /\ ck_elapsed >= CkInterval
    \/ SaturatingSub(ck_wal_size, ck_wal_size_at) >= CkWalThreshold
    \/ ck_records >= CkMinRecords

\* C12: should_checkpoint returns true whenever one of the three triggers
\* holds (interval elapsed, WAL growth at the threshold, records at
\* min_records), in every state of the manager.
C12_ShouldCheckpointWhenTriggered ==
    (ck_should # "NotCalled" /\ TriggerHolds) => ck_should = "true"

\* A step that records the checkpoint perform_checkpoint has just completed.
RecordsCheckpoint ==
    /\ ck_pc = "idle"
    /\ ck_result = "Ok"
    /\ ck_pc' = "idle"
    /\ ck_result' = None

\* A step of record_writes: nothing else makes records_since_checkpoint grow.
RecordsWrites == ck_records' > ck_records

\* C38: recording a completed checkpoint at LSN L, by record_checkpoint or by
\* record_checkpoint_with_wal_size, sets last_checkpoint_lsn to L,
\* records_since_checkpoint to 0 and wal_size_at_checkpoint to the size of
\* the WAL at that checkpoint; record_writes(n) adds n to
\* records_since_checkpoint and changes no other counter.
C38_RecordCheckpointUpdatesAllCounters ==
    [][/\ RecordsCheckpoint =>
             /\ ck_last_lsn' = ck_lsn
             /\ ck_records' = 0
             /\ ck_wal_size_at' = ck_wal_size
       /\ RecordsWrites =>
             /\ ck_records' - ck_records \in 1..2
             /\ UNCHANGED <<ck_last_lsn, ck_wal_size_at, ck_has_time>>]_ckVars

\* What both functions do: the LSN and the record count are updated, and
\* wal_size_at_checkpoint is either the size of the WAL now or left as it was.
RecordCheckpointUpdatesLsnAndRecords ==
    [][/\ RecordsCheckpoint =>
             /\ ck_last_lsn' = ck_lsn
             /\ ck_records' = 0
             /\ ck_has_time'
             /\ ck_wal_size_at' \in {ck_wal_size, ck_wal_size_at}
       /\ RecordsWrites =>
             /\ ck_records' - ck_records \in 1..2
             /\ UNCHANGED <<ck_last_lsn, ck_wal_size_at, ck_has_time>>]_ckVars

\* After record_checkpoint the manager measures WAL growth from a size the
\* WAL had before the checkpoint just recorded.
StaleWalSizeAtCheckpoint ==
    /\ ck_last_lsn = 1
    /\ ck_records = 0
    /\ ck_result = None
    /\ ck_pc = "idle"
    /\ ck_wal_size = 2
    /\ ck_wal_size_at = 0

(***************************************************************************)
(* Part V.  Buckets                                                        *)
(*                                                                         *)
(* Keys are byte strings (sequences of numbers 0..255), the BTree is a     *)
(* function from its keys to values, iterated in ascending byte order.     *)
(***************************************************************************)
\* operations that change the BTree
MaxBucketMuts == 6

BUCKET_META_PREFIX == 0
BUCKET_DATA_PREFIX == 1
NESTED_BUCKET_META_PREFIX == 2
NESTED_BUCKET_DATA_PREFIX == 3
MAX_BUCKET_NAME_LEN == 255
MAX_NESTING_DEPTH == 16

\* "x as u8" of a length.
AsU8(n) == n % 256

\* The bucket names in use: the first is a byte-prefix of the second.
BucketNames == {<<1>>, <<1, 1>>}
\* The nested paths in use: <<1>>/<<1,1>>, its child, and its sibling.
BucketPaths == { << <<1>>, <<1, 1>> >>,
                 << <<1>>, <<1, 1>>, <<1>> >>,
                 << <<1>>, <<1>> >> }
\* The user keys in use.
UserKeys == {<<1>>, <<2>>}
\* The keys range bounds are taken from.
BoundKeys == {<<1>>, <<1, 1>>, <<2>>}

\* slice::starts_with.
StartsWith(k, p) == Len(k) >= Len(p) /\ SubSeq(k, 1, Len(p)) = p

\* Ord for byte slices: a < b.
RECURSIVE LexLess(_, _)
LexLess(a, b) ==
    IF b = <<>> THEN FALSE
    ELSE IF a = <<>> THEN TRUE
    ELSE IF Head(a) # Head(b) THEN Head(a) < Head(b)
    ELSE LexLess(Tail(a), Tail(b))

\* BTree::new, get, insert, remove.
EmptyBTree == [k \in {} |-> ""]
BGet(tr, k) == IF k \in DOMAIN tr THEN tr[k] ELSE None
BInsert(tr, k, v) == [x \in (DOMAIN tr) \cup {k} |-> IF x = k THEN v ELSE tr[x]]
BRemoveAll(tr, ks) == [x \in (DOMAIN tr) \ ks |-> tr[x]]

\* BTree::iter: the keys in ascending order.
RECURSIVE SortedKeys(_)
SortedKeys(S) ==
    IF S = {} THEN <<>>
    ELSE LET m == CHOOSE x \in S : \A y \in S : x = y \/ LexLess(x, y)
         IN <<m>> \o SortedKeys(S \ {m})
BIterKeys(tr) == SortedKeys(DOMAIN tr)

\* validate_bucket_name.
validate_bucket_name(name) ==
    IF Len(name) = 0 THEN "InvalidBucketName"
    ELSE IF Len(name) > MAX_BUCKET_NAME_LEN THEN "InvalidBucketName"
    ELSE "Ok"

bucket_meta_key(name) == <<BUCKET_META_PREFIX, AsU8(Len(name))>> \o name
bucket_data_prefix(name) == <<BUCKET_DATA_PREFIX, AsU8(Len(name))>> \o name
bucket_data_key(name, user_key) ==
    <<BUCKET_DATA_PREFIX, AsU8(Len(name))>> \o name \o user_key

bucket_exists(tr, name) == BGet(tr, bucket_meta_key(name)) # None

\* The loop of encode_path: every component with its length in front.
RECURSIVE EncodeComponents(_)
EncodeComponents(path) ==
    IF path = <<>> THEN <<>>
    ELSE <<AsU8(Len(Head(path)))>> \o Head(path) \o EncodeComponents(Tail(path))

\* An encode_path that leaves out the component count.
encode_path_no_count(prefix_byte, path) == <<prefix_byte>> \o EncodeComponents(path)

encode_path(prefix_byte, path) ==
    <<prefix_byte, AsU8(Len(path))>> \o EncodeComponents(path)

nested_bucket_meta_key(path) == encode_path(NESTED_BUCKET_META_PREFIX, path)
nested_bucket_data_prefix(path) == encode_path(NESTED_BUCKET_DATA_PREFIX, path)
nested_bucket_data_key(path, user_key) ==
    encode_path(NESTED_BUCKET_DATA_PREFIX, path) \o user_key

\* validate_nested_bucket_path.
validate_nested_bucket_path(path) ==
    IF Len(path) = 0 THEN "InvalidBucketName"
    ELSE IF Len(path) > MAX_NESTING_DEPTH THEN "InvalidBucketName"
    ELSE IF \E i \in 1..Len(path) : validate_bucket_name(path[i]) # "Ok"
         THEN "InvalidBucketName"
    ELSE "Ok"

nested_bucket_exists(tr, path) ==
    IF Len(path) < 2 THEN FALSE
    ELSE BGet(tr, nested_bucket_meta_key(path)) # None

\* The loop of is_child_path from component i on; offset counts from 0.
RECURSIVE ChildPathFrom(_, _, _, _)
ChildPathFrom(key, parent_path, i, offset) ==
    IF i > Len(parent_path) THEN TRUE
    ELSE IF offset >= Len(key) THEN FALSE
    ELSE LET len == key[offset + 1] IN
         IF offset + 1 + len > Len(key) THEN FALSE
         ELSE IF SubSeq(key, offset + 2, offset + 1 + len) # parent_path[i] THEN FALSE
         ELSE ChildPathFrom(key, parent_path, i + 1, offset + 1 + len)

is_child_path(key, parent_path) ==
    IF Len(key) < 2 THEN FALSE
    ELSE IF key[2] <= Len(parent_path) THEN FALSE
    ELSE ChildPathFrom(key, parent_path, 1, 2)

\* The result of a bucket operation not yet made.
NoBucketOp == [op |-> "none", path |-> <<>>, res |-> "Ok"]

BKInit ==
    /\ bk_tree = EmptyBTree
    /\ bk_last = NoBucketOp
    /\ bk_before = EmptyBTree
    /\ bk_muts = 0
    /\ bk_data = {}
    /\ bk_live = [n \in BucketNames |-> FALSE]

\* What an operation that returned r leaves behind; the BTree and the
\* history are set by the operation.
BucketOpDone(op, path, r) ==
    /\ bk_last' = [op |-> op, path |-> path, res |-> r]
    /\ bk_before' = bk_tree
    /\ bk_muts' = IF r = "Ok" THEN bk_muts + 1 ELSE bk_muts

\* A create_bucket that takes an existing bucket for a success, as
\* create_bucket_if_not_exists does.
CreateBucketOutcomeIfNotExists(tr, name) ==
    IF validate_bucket_name(name) # "Ok" THEN "InvalidBucketName" ELSE "Ok"

\* create_bucket: what it returns.
CreateBucketOutcome(tr, name) ==
    IF validate_bucket_name(name) # "Ok" THEN "InvalidBucketName"
    ELSE IF BGet(tr, bucket_meta_key(name)) # None THEN "BucketAlreadyExists"
    ELSE "Ok"

\* create_bucket(tree, name).
CreateBucket(name) ==
    /\ UNCHANGED bkOthers
    /\ LET r == CreateBucketOutcome(bk_tree, name) IN
         /\ r = "Ok" => bk_muts < MaxBucketMuts
         /\ bk_tree' = IF r = "Ok" THEN BInsert(bk_tree, bucket_meta_key(name), "")
                       ELSE bk_tree
         /\ bk_live' = IF r = "Ok" THEN [bk_live EXCEPT ![name] = TRUE] ELSE bk_live
         /\ BucketOpDone("create_bucket", <<name>>, r)
    /\ UNCHANGED bk_data

\* A delete_bucket that removes the marker and leaves the data entries.
BucketKeysToDeleteNone(tr, name) == {}

\* delete_bucket: keys_to_delete.
BucketKeysToDelete(tr, name) ==
    {k \in DOMAIN tr : StartsWith(k, bucket_data_prefix(name))}

\* delete_bucket(tree, name).
DeleteBucket(name) ==
    /\ UNCHANGED bkOthers
    /\ LET r == IF validate_bucket_name(name) # "Ok" THEN "InvalidBucketName"
                ELSE IF BGet(bk_tree, bucket_meta_key(name)) = None
                     THEN "BucketNotFound"
                ELSE "Ok" IN
         /\ r = "Ok" => bk_muts < MaxBucketMuts
         /\ bk_tree' = IF r = "Ok"
                       THEN BRemoveAll(BRemoveAll(bk_tree, BucketKeysToDelete(bk_tree, name)),
                                       {bucket_meta_key(name)})
                       ELSE bk_tree
         /\ bk_live' = IF r = "Ok" THEN [bk_live EXCEPT ![name] = FALSE] ELSE bk_live
         /\ bk_data' = IF r = "Ok"
                       THEN {d \in bk_data : ~(d.kind = "top" /\ d.path = <<name>>)}
                       ELSE bk_data
         /\ BucketOpDone("delete_bucket", <<name>>, r)

\* BucketMut::new(tree, name) on an existing bucket, then put(key, value).
BucketPut(name, user_key, value) ==
    /\ UNCHANGED bkOthers
    /\ validate_bucket_name(name) = "Ok"
    /\ bucket_exists(bk_tree, name)
    /\ bk_muts < MaxBucketMuts
    /\ bk_tree' = BInsert(bk_tree, bucket_data_key(name, user_key), value)
    /\ bk_data' = {d \in bk_data : ~(d.kind = "top" /\ d.path = <<name>> /\ d.key = user_key)}
                  \cup {[kind |-> "top", path |-> <<name>>, key |-> user_key, val |-> value]}
    /\ BucketOpDone("put", <<name>>, "Ok")
    /\ UNCHANGED bk_live

\* BucketMut::new(tree, name) on an existing bucket, then delete(key).
BucketDelete(name, user_key) ==
    /\ UNCHANGED bkOthers
    /\ validate_bucket_name(name) = "Ok"
    /\ bucket_exists(bk_tree, name)
    /\ bk_muts < MaxBucketMuts
    /\ bk_tree' = BRemoveAll(bk_tree, {bucket_data_key(name, user_key)})
    /\ bk_data' = {d \in bk_data : ~(d.kind = "top" /\ d.path = <<name>> /\ d.key = user_key)}
    /\ BucketOpDone("delete", <<name>>, "Ok")
    /\ UNCHANGED bk_live

\* The parent of a nested path exists: the top-level bucket for a path of
\* two components, the nested bucket above it otherwise.
NestedParentExists(tr, path) ==
    IF Len(path) = 2 THEN bucket_exists(tr, path[1])
    ELSE nested_bucket_exists(tr, SubSeq(path, 1, Len(path) - 1))

\* A create_nested_bucket that does not look for the parent.
CreateNestedOutcomeNoParentCheck(tr, path) ==
    IF validate_nested_bucket_path(path) # "Ok" THEN "InvalidBucketName"
    ELSE IF BGet(tr, nested_bucket_meta_key(path)) # None THEN "BucketAlreadyExists"
    ELSE "Ok"

\* create_nested_bucket: what it returns.
CreateNestedOutcome(tr, path) ==
    IF validate_nested_bucket_path(path) # "Ok" THEN "InvalidBucketName"
    ELSE IF ~NestedParentExists(tr, path) THEN "BucketNotFound"
    ELSE IF BGet(tr, nested_bucket_meta_key(path)) # None THEN "BucketAlreadyExists"
    ELSE "Ok"

\* create_nested_bucket(tree, path).
CreateNestedBucket(path) ==
    /\ UNCHANGED bkOthers
    /\ LET r == CreateNestedOutcome(bk_tree, path) IN
         /\ r = "Ok" => bk_muts < MaxBucketMuts
         /\ bk_tree' = IF r = "Ok" THEN BInsert(bk_tree, nested_bucket_meta_key(path), "")
                       ELSE bk_tree
         /\ BucketOpDone("create_nested_bucket", path, r)
    /\ UNCHANGED <<bk_data, bk_live>>

\* delete_nested_bucket: keys_to_delete.
NestedKeysToDelete(tr, path) ==
    LET data_prefix == nested_bucket_data_prefix(path)
        meta_prefix == encode_path(NESTED_BUCKET_META_PREFIX, path) IN
    {k \in DOMAIN tr :
        \/ StartsWith(k, data_prefix)
        \/ (k[1] = NESTED_BUCKET_META_PREFIX /\ StartsWith(k, meta_prefix)
             /\ Len(k) > Len(meta_prefix))
        \/ (k[1] = NESTED_BUCKET_DATA_PREFIX
             /\ Len(k) > Len(encode_path(NESTED_BUCKET_DATA_PREFIX, path))
             /\ is_child_path(k, path))}

\* The path p is q or an ancestor of q.
IsPathPrefix(p, q) == Len(p) <= Len(q) /\ SubSeq(q, 1, Len(p)) = p

\* delete_nested_bucket(tree, path).
DeleteNestedBucket(path) ==
    /\ UNCHANGED bkOthers
    /\ LET r == IF validate_nested_bucket_path(path) # "Ok" THEN "InvalidBucketName"
                ELSE IF BGet(bk_tree, nested_bucket_meta_key(path)) = None
                     THEN "BucketNotFound"
                ELSE "Ok" IN
         /\ r = "Ok" => bk_muts < MaxBucketMuts
         /\ bk_tree' = IF r = "Ok"
                       THEN BRemoveAll(BRemoveAll(bk_tree, NestedKeysToDelete(bk_tree, path)),
                                       {nested_bucket_meta_key(path)})
                       ELSE bk_tree
         /\ bk_data' = IF r = "Ok"
                       THEN {d \in bk_data :
                                ~(d.kind = "nested" /\ IsPathPrefix(path, d.path))}
                       ELSE bk_data
         /\ BucketOpDone("delete_nested_bucket", path, r)
    /\ UNCHANGED bk_live

\* tree.insert(nested_bucket_data_key(path, key), value) for an existing
\* nested bucket.
NestedPut(path, user_key, value) ==
    /\ UNCHANGED bkOthers
    /\ nested_bucket_exists(bk_tree, path)
    /\ bk_muts < MaxBucketMuts
    /\ bk_tree' = BInsert(bk_tree, nested_bucket_data_key(path, user_key), value)
    /\ bk_data' = {d \in bk_data : ~(d.kind = "nested" /\ d.path = path /\ d.key = user_key)}
                  \cup {[kind |-> "nested", path |-> path, key |-> user_key, val |-> value]}
    /\ BucketOpDone("nested_put", path, "Ok")
    /\ UNCHANGED bk_live

BKNext ==
    \/ \E n \in BucketNames : CreateBucket(n)
    \/ \E n \in BucketNames : DeleteBucket(n)
    \/ \E n \in BucketNames, k \in UserKeys, v \in Vals : BucketPut(n, k, v)
    \/ \E n \in BucketNames, k \in UserKeys : BucketDelete(n, k)
    \/ \E p \in BucketPaths : CreateNestedBucket(p)
    \/ \E p \in BucketPaths : DeleteNestedBucket(p)
    \/ \E p \in BucketPaths, k \in UserKeys : NestedPut(p, k, "a")

\* BucketIter and NestedBucketIter run to the end over the keys ks of the
\* tree: the (user key, value) pairs they yield.
RECURSIVE PrefixIter(_, _, _)
PrefixIter(tr, ks, prefix) ==
    IF ks = <<>> THEN <<>>
    ELSE IF LexLess(Head(ks), prefix) THEN PrefixIter(tr, Tail(ks), prefix)
    ELSE IF ~StartsWith(Head(ks), prefix) THEN <<>>
    ELSE << <<SubSeq(Head(ks), Len(prefix) + 1, Len(Head(ks))), tr[Head(ks)]>> >>
         \o PrefixIter(tr, Tail(ks), prefix)

\* BucketRef::get, BucketRef::iter, NestedBucketRef::get, NestedBucketRef::iter.
BucketGet(tr, name, user_key) == BGet(tr, bucket_data_key(name, user_key))
BucketIter(tr, name) == PrefixIter(tr, BIterKeys(tr), bucket_data_prefix(name))
NestedGet(tr, path, user_key) == BGet(tr, nested_bucket_data_key(path, user_key))
NestedIter(tr, path) == PrefixIter(tr, BIterKeys(tr), nested_bucket_data_prefix(path))

\* The entries put into a bucket and not deleted since, by user key.
Written(kind, path) ==
    LET ds == {d \in bk_data : d.kind = kind /\ d.path = path}
        ks == SortedKeys({d.key : d \in ds})
    IN [i \in 1..Len(ks) |->
           <<ks[i], (CHOOSE d \in ds : d.key = ks[i]).val>>]
WrittenValue(kind, path, user_key) ==
    IF \E d \in bk_data : d.kind = kind /\ d.path = path /\ d.key = user_key
    THEN (CHOOSE d \in bk_data : d.kind = kind /\ d.path = path /\ d.key = user_key).val
    ELSE None

\* C13: bucket isolation: get and iter on a bucket (a top-level name or a
\* nested path) return exactly what was written to that bucket, with the
\* prefix stripped, whatever was written to other buckets under the same
\* user keys, also when one name is a byte-prefix of the other or one path
\* an ancestor of the other.
C13_BucketIsolation ==
    /\ \A n \in BucketNames :
         /\ BucketIter(bk_tree, n) = Written("top", <<n>>)
         /\ \A k \in UserKeys : BucketGet(bk_tree, n, k) = WrittenValue("top", <<n>>, k)
    /\ \A p \in BucketPaths :
         /\ NestedIter(bk_tree, p) = Written("nested", p)
         /\ \A k \in UserKeys : NestedGet(bk_tree, p, k) = WrittenValue("nested", p, k)

\* A top-level bucket, the nested bucket below it and the child of that one
\* hold entries under one user key, and each reads back its own.
C13_Witness ==
    /\ BucketGet(bk_tree, <<1>>, <<1>>) = "b"
    /\ NestedGet(bk_tree, << <<1>>, <<1, 1>> >>, <<1>>) = "a"
    /\ NestedIter(bk_tree, << <<1>>, <<1, 1>>, <<1>> >>) = << <<(<<1>>), "a">> >>
    /\ NestedGet(bk_tree, << <<1>>, <<1, 1>> >>, <<2>>) = None

\* The tree tr holds the marker or a data key of the nested bucket at q.
NestedTrace(tr, q) ==
    \/ nested_bucket_exists(tr, q)
    \/ \E k \in DOMAIN tr : StartsWith(k, nested_bucket_data_prefix(q))

\* C14: after delete_nested_bucket(path) returned Ok the tree holds no
\* marker and no data key of the bucket at path, nor of any nested bucket
\* whose path has path as a proper prefix.
C14_NestedDeleteCascades ==
    (bk_last.op = "delete_nested_bucket" /\ bk_last.res = "Ok")
        => \A q \in BucketPaths :
              IsPathPrefix(bk_last.path, q) => ~NestedTrace(bk_tree, q)

\* The tree tr holds no orphan: the parent of every nested bucket whose
\* marker is present is present, and every nested data key belongs to a path
\* whose marker is present.
OrphanFree(tr) ==
    \A q \in BucketPaths :
        /\ nested_bucket_exists(tr, q) => NestedParentExists(tr, q)
        /\ NestedTrace(tr, q) => nested_bucket_exists(tr, q)

\* C34: the tree holds no orphans, whatever create_bucket, delete_bucket,
\* create_nested_bucket and delete_nested_bucket calls were made: the parent
\* of every nested bucket whose marker is present is present (the top-level
\* bucket for a path of two components, the nested bucket above otherwise),
\* and every nested data key belongs to a path whose marker is present.
C34_NoOrphans == OrphanFree(bk_tree)

\* No operation other than delete_bucket and delete_nested_bucket makes an
\* orphan in a tree that had none.
OnlyDeletesOrphan ==
    (OrphanFree(bk_before) /\ bk_last.op \notin {"delete_bucket", "delete_nested_bucket"})
        => OrphanFree(bk_tree)

\* The last operation was create_nested_bucket.
CreatedNested == bk_last.op = "create_nested_bucket"
\* The marker of the path of the last operation was in the tree before it.
PathExisted == BGet(bk_before, nested_bucket_meta_key(bk_last.path)) # None
\* The parent of the path of the last operation was in the tree before it.
ParentExisted == NestedParentExists(bk_before, bk_last.path)

KeysOfBucket(name) ==
    {bucket_meta_key(name)} \cup {bucket_data_key(name, u) : u \in UserKeys}

\* C16: delete_bucket(name) on an existing top-level bucket removes its
\* marker and every data key of that bucket and nothing else: the marker and
\* all data entries of every other top-level bucket are unchanged.
C16_DeleteBucketFrame ==
    (bk_last.op = "delete_bucket" /\ bk_last.res = "Ok") =>
        LET name == bk_last.path[1] IN
        /\ bucket_exists(bk_before, name)
        /\ bk_tree = BRemoveAll(bk_before, KeysOfBucket(name))
        /\ ~bucket_exists(bk_tree, name)
        /\ BucketIter(bk_tree, name) = <<>>
        /\ \A m \in BucketNames \ {name} :
              /\ bucket_exists(bk_tree, m) = bucket_exists(bk_before, m)
              /\ BucketIter(bk_tree, m) = BucketIter(bk_before, m)

\* Bucket <<1>> held an entry when it was deleted, and bucket <<1, 1>> still
\* holds its entry under the same user key.
C16_Witness ==
    /\ bk_last = [op |-> "delete_bucket", path |-> << <<1>> >>, res |-> "Ok"]
    /\ BucketGet(bk_before, <<1>>, <<1>>) = "a"
    /\ BucketGet(bk_tree, <<1>>, <<1>>) = None
    /\ bucket_exists(bk_tree, <<1, 1>>)
    /\ BucketGet(bk_tree, <<1, 1>>, <<1>>) = "b"

\* C17: create_bucket(name) on a name whose marker is present returns
\* BucketAlreadyExists and delete_bucket(name) on a name whose marker is
\* absent returns BucketNotFound, and both leave the tree unchanged; a name
\* exists exactly from its create to its next delete.
C17_CreateDeleteErrors ==
    /\ (bk_last.op = "create_bucket" /\ bucket_exists(bk_before, bk_last.path[1]))
          => (bk_last.res = "BucketAlreadyExists" /\ bk_tree = bk_before)
    /\ (bk_last.op = "delete_bucket" /\ ~bucket_exists(bk_before, bk_last.path[1]))
          => (bk_last.res = "BucketNotFound" /\ bk_tree = bk_before)
    /\ \A n \in BucketNames : bucket_exists(bk_tree, n) = bk_live[n]

\* create_bucket was refused for a bucket that holds an entry, while the
\* other name does not exist.
C17_Witness ==
    /\ bk_last = [op |-> "create_bucket", path |-> << <<1, 1>> >>,
                  res |-> "BucketAlreadyExists"]
    /\ BucketGet(bk_tree, <<1, 1>>, <<2>>) = "b"
    /\ bk_live[<<1, 1>>] /\ ~bk_live[<<1>>]
    /\ ~bucket_exists(bk_tree, <<1>>)

\* BucketBound.
Unbounded == [kind |-> "Unbounded", key |-> <<>>]
Included(k) == [kind |-> "Included", key |-> k]
Excluded(k) == [kind |-> "Excluded", key |-> k]
BucketBounds ==
    {Unbounded} \cup {Included(k) : k \in BoundKeys} \cup {Excluded(k) : k \in BoundKeys}

is_at_or_past_start(start_bound, user_key) ==
    IF start_bound.kind = "Unbounded" THEN TRUE
    ELSE IF start_bound.kind = "Included" THEN ~LexLess(user_key, start_bound.key)
    ELSE LexLess(start_bound.key, user_key)

\* An is_past_end that takes an excluded end for an included one.
is_past_end_inclusive(end_bound, user_key) ==
    IF end_bound.kind = "Unbounded" THEN FALSE
    ELSE LexLess(end_bound.key, user_key)

is_past_end(end_bound, user_key) ==
    IF end_bound.kind = "Unbounded" THEN FALSE
    ELSE IF end_bound.kind = "Included" THEN LexLess(end_bound.key, user_key)
    ELSE ~LexLess(user_key, end_bound.key)

\* BucketRangeIter::next run to the end over the keys ks of the tree.
RECURSIVE RangeIter(_, _, _, _, _, _)
RangeIter(tr, ks, prefix, start_bound, end_bound, started) ==
    IF ks = <<>> THEN <<>>
    ELSE LET key == Head(ks)
             user_key == SubSeq(key, Len(prefix) + 1, Len(key)) IN
         IF LexLess(key, prefix)
         THEN RangeIter(tr, Tail(ks), prefix, start_bound, end_bound, started)
         ELSE IF ~StartsWith(key, prefix) THEN <<>>
         ELSE IF ~started /\ ~is_at_or_past_start(start_bound, user_key)
         THEN RangeIter(tr, Tail(ks), prefix, start_bound, end_bound, FALSE)
         ELSE IF is_past_end(end_bound, user_key) THEN <<>>
         ELSE << <<user_key, tr[key]>> >>
              \o RangeIter(tr, Tail(ks), prefix, start_bound, end_bound, TRUE)

\* BucketRangeIter::new and the iteration, over the keys ks of tree.iter().
BucketRangeOver(tr, ks, name, start_bound, end_bound) ==
    RangeIter(tr, ks, bucket_data_prefix(name), start_bound, end_bound, FALSE)

\* BucketRef::range.
BucketRange(tr, name, start_bound, end_bound) ==
    BucketRangeOver(tr, BIterKeys(tr), name, start_bound, end_bound)

\* The user key k lies within the bounds.
WithinBounds(lo, hi, k) ==
    /\ lo.kind = "Included" => (k = lo.key \/ LexLess(lo.key, k))
    /\ lo.kind = "Excluded" => LexLess(lo.key, k)
    /\ hi.kind = "Included" => (k = hi.key \/ LexLess(k, hi.key))
    /\ hi.kind = "Excluded" => LexLess(k, hi.key)

\* The entries among written whose keys lie within the bounds.
EntriesWithin(written, lo, hi) ==
    LET InBounds(entry) == WithinBounds(lo, hi, entry[1])
    IN SelectSeq(written, InBounds)

\* C18: range iteration over a bucket returns, in ascending order, exactly
\* the entries of that bucket whose user key lies within the bounds
\* (lo <= k < hi for [lo, hi), and correspondingly for inclusive, exclusive
\* and unbounded ends), whatever else the tree holds.
C18_RangeIteration ==
    LET ks == BIterKeys(bk_tree) IN
    \A n \in BucketNames :
        bucket_exists(bk_tree, n) =>
            LET written == Written("top", <<n>>) IN
            \A lo \in BucketBounds, hi \in BucketBounds :
                BucketRangeOver(bk_tree, ks, n, lo, hi) = EntriesWithin(written, lo, hi)

\* Bucket <<1, 1>> holds the keys <<1>> and <<2>>, the range [<<1>>, <<2>>)
\* yields the first only, and the tree holds keys of another bucket sorted
\* before and a nested marker sorted after.
C18_Witness ==
    /\ BucketRange(bk_tree, <<1, 1>>, Included(<<1>>), Excluded(<<2>>))
          = << <<(<<1>>), "a">> >>
    /\ BucketGet(bk_tree, <<1, 1>>, <<2>>) = "b"
    /\ BucketGet(bk_tree, <<1>>, <<1>>) = "b"
    /\ nested_bucket_exists(bk_tree, << <<1>>, <<1, 1>> >>)

(***************************************************************************)
(* Part VI.  Overflow page chains                                          *)
(*                                                                         *)
(* Pages are byte strings of PageSize bytes.  A u32 that is computed with  *)
(* (the checksum) is a sequence of 32 bits, lowest first; a u32 or u64     *)
(* that is only read from a page is a number, where every value of 2^24    *)
(* or more is taken for 2^24: such a value is beyond every page of the     *)
(* file and beyond every page size here.                                  *)
(***************************************************************************)
\* page_size: the header and two bytes of data
PageSize == 26
\* pages of the file, the two meta pages included
NumPages == 4
\* allocate_overflow calls in a run
MaxStores == 2
\* length of free_pages beyond which no reference is freed a second time
MaxFreePages == 3

OVERFLOW_HEADER_SIZE == 24
OVERFLOW_PAGE_TYPE == 5
MAX_CHAIN_LENGTH == 1000000
\* The first page after the two meta pages.
FirstOverflowPageId == 2
\* 2^24 and 2^16.
Saturated == 16777216
SaturatedHigh == 65536

\* The values stored: empty, less than a page, a page, more than a page,
\* two pages.
OvValues == {<<>>, <<1>>, <<1, 2>>, <<3, 2, 1>>, <<1, 2, 3, 2>>}
\* The value a changed byte takes.
CorruptBytes == {0, 3}
\* The bytes of a page that change: the page type, the lowest byte of
\* next_page, of data_len and of the checksum, the data.
CorruptOffsets == {1, 9, 17, 21} \cup ((OVERFLOW_HEADER_SIZE + 1)..PageSize)

Min(a, b) == IF a < b THEN a ELSE b
Range(seq) == {seq[i] : i \in 1..Len(seq)}
Zeros(n) == [i \in 1..n |-> 0]

\* to_le_bytes of a number, w bytes wide.
RECURSIVE ToLE(_, _)
ToLE(n, w) == IF w = 0 THEN <<>> ELSE <<n % 256>> \o ToLE(n \div 256, w - 1)

\* from_le_bytes.
RECURSIVE FromLE(_)
FromLE(bytes) ==
    IF bytes = <<>> THEN 0
    ELSE LET high == FromLE(Tail(bytes)) IN
         IF high >= SaturatedHigh THEN Saturated ELSE high * 256 + Head(bytes)

\* A u32 as 32 bits, lowest first, from its four bytes, and back.
BitsOfBytes(bytes) ==
    [i \in 1..32 |-> (bytes[((i - 1) \div 8) + 1] \div (2 ^ ((i - 1) % 8))) % 2]
RECURSIVE BitsValue(_)
BitsValue(bits) == IF bits = <<>> THEN 0 ELSE Head(bits) + 2 * BitsValue(Tail(bits))
BytesOfBits(bits) == [j \in 1..4 |-> BitsValue(SubSeq(bits, 8 * (j - 1) + 1, 8 * j))]

\* 0xEDB8_8320 and 0xFFFF_FFFF.
CrcPolynomial == BitsOfBytes(<<32, 131, 184, 237>>)
CrcAllOnes == [i \in 1..32 |-> 1]
Xor32(a, b) == [i \in 1..32 |-> (a[i] + b[i]) % 2]
ShiftRight1(a) == [i \in 1..32 |-> IF i < 32 THEN a[i + 1] ELSE 0]

\* for _ in 0..8 { crc = if crc & 1 != 0 { (crc >> 1) ^ POLY } else { crc >> 1 } }
RECURSIVE CrcShift(_, _)
CrcShift(crc, n) ==
    IF n = 0 THEN crc
    ELSE CrcShift(IF crc[1] = 1 THEN Xor32(ShiftRight1(crc), CrcPolynomial)
                  ELSE ShiftRight1(crc), n - 1)

\* for &byte in data { crc ^= byte; ... }
RECURSIVE CrcBytes(_, _)
CrcBytes(crc, data) ==
    IF data = <<>> THEN crc
    ELSE CrcBytes(CrcShift(Xor32(crc, BitsOfBytes(<<Head(data), 0, 0, 0>>)), 8), Tail(data))

\* compute_checksum: the four bytes of !crc, lowest first.
compute_checksum(data) == BytesOfBits(Xor32(CrcBytes(CrcAllOnes, data), CrcAllOnes))

\* OverflowHeader::new(next_page, data_len, checksum).to_bytes().
OverflowHeaderBytes(next_page, data_len, checksum) ==
    <<OVERFLOW_PAGE_TYPE>> \o Zeros(7) \o ToLE(next_page, 8) \o ToLE(data_len, 4)
        \o checksum

\* No header, no page, no value.
Nothing == [ok |-> FALSE, val |-> <<>>]
Some(v) == [ok |-> TRUE, val |-> v]

\* OverflowHeader::from_bytes.
OverflowHeaderFromBytes(buf) ==
    IF Len(buf) < OVERFLOW_HEADER_SIZE THEN Nothing
    ELSE IF buf[1] # OVERFLOW_PAGE_TYPE THEN Nothing
    ELSE Some([next_page |-> FromLE(SubSeq(buf, 9, 16)),
               data_len |-> FromLE(SubSeq(buf, 17, 20)),
               checksum |-> SubSeq(buf, 21, 24)])

\* An alloc_page that hands out next_page_id and leaves it as it is.
alloc_page_no_advance(next_page_id, free_pages) ==
    [id |-> next_page_id, next_page_id |-> next_page_id, free_pages |-> free_pages]

\* An alloc_page that takes the next page id whatever the free list holds.
alloc_page_fresh_first(next_page_id, free_pages) ==
    [id |-> next_page_id, next_page_id |-> next_page_id + 1, free_pages |-> free_pages]

\* alloc_page: from the free list, or the next page id.
alloc_page(next_page_id, free_pages) ==
    IF free_pages # <<>>
    THEN [id |-> free_pages[Len(free_pages)], next_page_id |-> next_page_id,
          free_pages |-> SubSeq(free_pages, 1, Len(free_pages) - 1)]
    ELSE [id |-> next_page_id, next_page_id |-> next_page_id + 1,
          free_pages |-> free_pages]

\* The while loop of allocate_overflow.
RECURSIVE AllocateChunks(_, _, _, _, _)
AllocateChunks(remaining, current_page_id, next_page_id, free_pages, pages) ==
    IF remaining = <<>>
    THEN [pages |-> pages, next_page_id |-> next_page_id, free_pages |-> free_pages]
    ELSE LET chunk_len == Min(Len(remaining), PageSize - OVERFLOW_HEADER_SIZE)
             chunk == SubSeq(remaining, 1, chunk_len)
             rest == SubSeq(remaining, chunk_len + 1, Len(remaining))
             a == IF rest = <<>>
                  THEN [id |-> 0, next_page_id |-> next_page_id, free_pages |-> free_pages]
                  ELSE alloc_page(next_page_id, free_pages)
             page_data == OverflowHeaderBytes(a.id, chunk_len, compute_checksum(chunk))
                          \o chunk \o Zeros(PageSize - OVERFLOW_HEADER_SIZE - chunk_len)
         IN AllocateChunks(rest, a.id, a.next_page_id, a.free_pages,
                           Append(pages, <<current_page_id, page_data>>))

\* allocate_overflow: the reference, the pages to write, the manager after.
allocate_overflow(next_page_id, free_pages, value) ==
    IF value = <<>>
    THEN [ref |-> [start_page |-> 0, total_len |-> 0], pages |-> <<>>,
          next_page_id |-> next_page_id, free_pages |-> free_pages]
    ELSE LET first == alloc_page(next_page_id, free_pages)
             r == AllocateChunks(value, first.id, first.next_page_id, first.free_pages, <<>>)
         IN [ref |-> [start_page |-> first.id, total_len |-> Len(value)],
             pages |-> r.pages, next_page_id |-> r.next_page_id,
             free_pages |-> r.free_pages]

\* Mmap::page_with_size / seek and read_exact: the page, if the file has it.
PageAt(fl, page_id) ==
    IF page_id \in DOMAIN fl THEN Some(fl[page_id]) ELSE Nothing

\* The while loop of read_overflow.  Once acc is longer than total_len
\* the call returns None whatever follows (a check fails, or the loop ends
\* and the lengths differ), so the walk ends there.  seen holds the pages
\* visited with the length of acc at the visit: a walk that comes back to a
\* page with nothing added to acc since goes round, passing the same checks,
\* until pages_read is MAX_CHAIN_LENGTH, and leaves the loop with acc as it
\* is now.
RECURSIVE ReadChain(_, _, _, _, _, _)
ReadChain(fl, current_page, pages_read, acc, total_len, seen) ==
    IF current_page # 0 /\ pages_read < MAX_CHAIN_LENGTH
          /\ <<current_page, Len(acc)>> \notin seen
    THEN LET page == PageAt(fl, current_page)
             header == OverflowHeaderFromBytes(page.val)
             data_end == OVERFLOW_HEADER_SIZE + header.val.data_len
             chunk == SubSeq(page.val, OVERFLOW_HEADER_SIZE + 1, data_end)
         IN IF ~page.ok THEN Nothing
            ELSE IF ~header.ok THEN Nothing
            ELSE IF data_end > Len(page.val) THEN Nothing
            ELSE IF compute_checksum(chunk) # header.val.checksum THEN Nothing
            ELSE IF Len(acc) + Len(chunk) > total_len THEN Nothing
            ELSE ReadChain(fl, header.val.next_page, pages_read + 1,
                           acc \o chunk, total_len,
                           seen \cup {<<current_page, Len(acc)>>})
    ELSE IF Len(acc) # total_len THEN Nothing
    ELSE Some(acc)

\* read_overflow and read_overflow_from_file.
read_overflow(fl, ref) ==
    IF ref.start_page = 0 THEN Some(<<>>)
    ELSE ReadChain(fl, ref.start_page, 0, <<>>, ref.total_len, {})

\* free_overflow: the pages of the chain, in the order they are pushed.
RECURSIVE FreeChain(_, _, _)
FreeChain(fl, current_page, pages_freed) ==
    IF current_page # 0 /\ pages_freed < MAX_CHAIN_LENGTH
    THEN LET page == PageAt(fl, current_page)
             header == OverflowHeaderFromBytes(page.val)
         IN IF page.ok /\ header.ok
            THEN <<current_page>> \o FreeChain(fl, header.val.next_page, pages_freed + 1)
            ELSE <<>>
    ELSE <<>>

NotRead == [op |-> "none", ref |-> [start_page |-> 0, total_len |-> 0], res |-> Nothing]

\* OverflowManager::new(page_size, next_page_id) and a file of empty pages.
OVInit ==
    /\ ov_next_page_id = FirstOverflowPageId
    /\ ov_free_pages = <<>>
    /\ ov_file = [p \in 0..(NumPages - 1) |-> Zeros(PageSize)]
    /\ ov_read = NotRead
    /\ ov_stores = 0
    /\ ov_live = {}
    /\ ov_corrupted = FALSE
    /\ ov_hist = <<>>

\* The file after the pages were written at page_id * page_size.
RECURSIVE WritePages(_, _)
WritePages(fl, pages) ==
    IF pages = <<>> THEN fl
    ELSE WritePages([fl EXCEPT ![Head(pages)[1]] = Head(pages)[2]], Tail(pages))

\* allocate_overflow(value), then the pages are written to the file.
Store(value) ==
    /\ UNCHANGED ovOthers
    /\ ~ov_corrupted
    /\ ov_stores < MaxStores
    /\ LET r == allocate_overflow(ov_next_page_id, ov_free_pages, value) IN
         /\ r.next_page_id <= NumPages
         /\ ov_next_page_id' = r.next_page_id
         /\ ov_free_pages' = r.free_pages
         /\ ov_file' = WritePages(ov_file, r.pages)
         /\ ov_live' = ov_live \cup {[ref |-> r.ref, value |-> value]}
    /\ ov_stores' = ov_stores + 1
    /\ ov_read' = NotRead
    /\ UNCHANGED <<ov_corrupted, ov_hist>>

\* free_overflow(ref) for a reference handed out and not freed.
Free(l) ==
    /\ UNCHANGED ovOthers
    /\ ~ov_corrupted
    /\ l \in ov_live
    /\ ov_free_pages' = ov_free_pages \o FreeChain(ov_file, l.ref.start_page, 0)
    /\ ov_live' = ov_live \ {l}
    /\ ov_read' = NotRead
    /\ UNCHANGED <<ov_next_page_id, ov_file, ov_stores, ov_corrupted, ov_hist>>

\* The references read: those handed out, a reference to page 0 with a
\* length, and a reference to the first overflow page with a length of
\* its own.
RefsRead ==
    {l.ref : l \in ov_live}
        \cup {[start_page |-> 0, total_len |-> 2],
              [start_page |-> FirstOverflowPageId, total_len |-> 1]}

\* read_overflow(ref).
Read(ref) ==
    /\ UNCHANGED ovOthers
    /\ ov_read' = [op |-> "read", ref |-> ref, res |-> read_overflow(ov_file, ref)]
    /\ UNCHANGED <<ov_next_page_id, ov_free_pages, ov_file, ov_stores, ov_live,
                   ov_corrupted, ov_hist>>

\* One byte of a page of a chain handed out changes behind the manager.
Corrupt(page_id, i, b) ==
    /\ UNCHANGED ovOthers
    /\ ~ov_corrupted
    /\ \E l \in ov_live : page_id \in Range(FreeChain(ov_file, l.ref.start_page, 0))
    /\ ov_file[page_id][i] # b
    /\ ov_file' = [ov_file EXCEPT ![page_id][i] = b]
    /\ ov_corrupted' = TRUE
    /\ ov_read' = NotRead
    /\ UNCHANGED <<ov_next_page_id, ov_free_pages, ov_stores, ov_live, ov_hist>>

OVNext ==
    \/ \E v \in OvValues : Store(v)
    \/ \E l \in ov_live : Free(l)
    \/ \E ref \in RefsRead : Read(ref)
    \/ \E p \in FirstOverflowPageId..(NumPages - 1), i \in CorruptOffsets, b \in CorruptBytes :
          Corrupt(p, i, b)

(***************************************************************************)
(* read_overflow on any page content: the pages behind the meta pages hold *)
(* any overflow page that links to a page of the file or to none, or no    *)
(* overflow page at all, and any reference is read.                        *)
(***************************************************************************)
\* An overflow page with its header as allocate_overflow writes it.
LinkPage(next_page, chunk) ==
    OverflowHeaderBytes(next_page, Len(chunk), compute_checksum(chunk))
        \o chunk \o Zeros(PageSize - OVERFLOW_HEADER_SIZE - Len(chunk))

PageContents ==
    {Zeros(PageSize)}
        \cup {LinkPage(n, c) : n \in 0..(NumPages - 1), c \in {<<>>, <<1>>}}

AnyRefs ==
    {[start_page |-> p, total_len |-> n] :
        p \in {0} \cup (FirstOverflowPageId..(NumPages - 1)), n \in 0..2}

OVAnyFile ==
    /\ ov_next_page_id = NumPages
    /\ ov_free_pages = <<>>
    /\ ov_file \in {f \in [0..(NumPages - 1) -> PageContents] :
                       f[0] = Zeros(PageSize) /\ f[1] = Zeros(PageSize)}
    /\ ov_read = NotRead
    /\ ov_stores = 0
    /\ ov_live = {}
    /\ ov_corrupted = FALSE
    /\ ov_hist = <<>>

ORNext == \E ref \in AnyRefs : Read(ref)

\* The next_page links from page_id lead through overflow pages of the file
\* for n steps and more.
RECURSIVE LinksGoOn(_, _, _)
LinksGoOn(fl, page_id, n) ==
    IF n = 0 THEN TRUE
    ELSE IF page_id = 0 \/ page_id \notin DOMAIN fl THEN FALSE
    ELSE LET header == OverflowHeaderFromBytes(fl[page_id]) IN
         header.ok /\ LinksGoOn(fl, header.val.next_page, n - 1)

\* The links from page_id form a cycle: they go on for more steps than the
\* file has pages.
LinksCycle(fl, page_id) == LinksGoOn(fl, page_id, NumPages + 1)

\* C37: read_overflow terminates on every page content, and on a chain
\* whose next_page links form a cycle it reports failure: it returns no
\* value once it has visited MAX_CHAIN_LENGTH pages.
C37_CycleFailsToRead ==
    (ov_read.op = "read" /\ LinksCycle(ov_file, ov_read.ref.start_page))
        => ~ov_read.res.ok

\* A value that read_overflow returns on a cycle has the length the
\* reference gives.
CycleReadsOnlyWithoutData ==
    (ov_read.op = "read" /\ LinksCycle(ov_file, ov_read.ref.start_page)
        /\ ov_read.res.ok)
        => Len(ov_read.res.val) = ov_read.ref.total_len

(***************************************************************************)
(* The allocator alone, with the history of the chains it handed out: any  *)
(* reference handed out is freed, whether it was freed before or not.      *)
(***************************************************************************)
\* allocate_overflow(value), then the pages are written to the file.
AllocateOverflow(value) ==
    /\ UNCHANGED ovOthers
    /\ ov_stores < MaxStores
    /\ LET r == allocate_overflow(ov_next_page_id, ov_free_pages, value) IN
         /\ r.next_page_id <= NumPages
         /\ ov_next_page_id' = r.next_page_id
         /\ ov_free_pages' = r.free_pages
         /\ ov_file' = WritePages(ov_file, r.pages)
         /\ ov_live' = ov_live \cup {[ref |-> r.ref, value |-> value]}
         /\ ov_hist' = Append(ov_hist,
                              [ref |-> r.ref, value |-> value, live |-> TRUE,
                               ids |-> [i \in 1..Len(r.pages) |-> r.pages[i][1]]])
    /\ ov_stores' = ov_stores + 1
    /\ UNCHANGED <<ov_read, ov_corrupted>>

\* free_overflow(ref) for a reference handed out, live or freed before.
FreeOverflow(ref) ==
    /\ UNCHANGED ovOthers
    /\ Len(ov_free_pages) < MaxFreePages
    /\ ov_free_pages' = ov_free_pages \o FreeChain(ov_file, ref.start_page, 0)
    /\ ov_live' = {l \in ov_live : l.ref # ref}
    /\ ov_hist' = [i \in 1..Len(ov_hist) |->
                      IF ov_hist[i].ref = ref
                      THEN [ov_hist[i] EXCEPT !.live = FALSE] ELSE ov_hist[i]]
    /\ UNCHANGED <<ov_next_page_id, ov_file, ov_read, ov_stores, ov_corrupted>>

\* The references handed out so far.
HandedOut == {ov_hist[i].ref : i \in 1..Len(ov_hist)}

OFNext ==
    \/ \E v \in OvValues : AllocateOverflow(v)
    \/ \E ref \in HandedOut : FreeOverflow(ref)

\* C19: overflow round trip: for every non-empty value v, after the pages
\* returned by allocate_overflow(v) were written at page_id * page_size,
\* read_overflow on the returned reference returns exactly v; for the empty
\* value the returned reference reads back as the empty value.
C19_OverflowRoundTrip ==
    (ov_read.op = "read" /\ ~ov_corrupted)
        => \A l \in ov_live : l.ref = ov_read.ref => ov_read.res = Some(l.value)

\* A value of two pages was read back from a chain whose pages come from
\* the free list, in descending order of page id.
C19_Witness ==
    /\ ov_read.op = "read" /\ ~ov_corrupted
    /\ ov_read.res = Some(<<1, 2, 3, 2>>)
    /\ [ref |-> ov_read.ref, value |-> <<1, 2, 3, 2>>] \in ov_live
    /\ ov_read.ref.start_page > FirstOverflowPageId

\* The chain of ref has a defect: a page that is not an overflow page, a
\* data_len beyond the page, a checksum that does not match the data, or
\* chunk lengths that do not add up to total_len.  A chain that leaves the
\* file or that is longer than the file has pages is not judged here.
RECURSIVE ChainDefect(_, _, _, _, _)
ChainDefect(fl, page_id, so_far, total_len, fuel) ==
    IF page_id = 0 THEN so_far # total_len
    ELSE IF page_id \notin DOMAIN fl \/ fuel = 0 THEN FALSE
    ELSE LET page == fl[page_id]
             data_len == FromLE(SubSeq(page, 17, 20)) IN
         \/ page[1] # OVERFLOW_PAGE_TYPE
         \/ OVERFLOW_HEADER_SIZE + data_len > PageSize
         \/ compute_checksum(SubSeq(page, OVERFLOW_HEADER_SIZE + 1,
                                    OVERFLOW_HEADER_SIZE + data_len))
               # SubSeq(page, 21, 24)
         \/ so_far + data_len > total_len
         \/ ChainDefect(fl, FromLE(SubSeq(page, 9, 16)), so_far + data_len,
                        total_len, fuel - 1)

\* C20: reading an overflow chain fails, and never returns a value,
\* whenever a chunk's stored checksum does not match its data, a link's
\* data_len exceeds the page, a page is not an overflow page, or the
\* accumulated chunk length differs from the reference's total_len,
\* a reference with start_page 0 and a non-zero total_len included.
C20_CorruptChainFailsToRead ==
    (ov_read.op = "read"
        /\ ChainDefect(ov_file, ov_read.ref.start_page, 0, ov_read.ref.total_len, NumPages))
        => ~ov_read.res.ok

IdsOf(seq) == {seq[i] : i \in 1..Len(seq)}

\* C35: whatever allocate_overflow and free_overflow calls were made,
\* freeing a reference more than once included, the page ids of every
\* chain handed out are pairwise distinct and none is 0, and no page id
\* belongs to two chains that are both live.
C35_ChainsDistinctAndDisjoint ==
    \A i \in 1..Len(ov_hist) :
        /\ Cardinality(IdsOf(ov_hist[i].ids)) = Len(ov_hist[i].ids)
        /\ 0 \notin IdsOf(ov_hist[i].ids)
        /\ \A j \in 1..Len(ov_hist) :
              (i # j /\ ov_hist[i].live /\ ov_hist[j].live)
                  => IdsOf(ov_hist[i].ids) \cap IdsOf(ov_hist[j].ids) = {}

\* The chain h is intact: each of its pages in the file links to the page
\* handed out after it, the last to none, and the reference reads back as
\* the value.
Intact(h) ==
    /\ \A k \in 1..Len(h.ids) :
          LET header == OverflowHeaderFromBytes(ov_file[h.ids[k]]) IN
          /\ header.ok
          /\ header.val.next_page = IF k < Len(h.ids) THEN h.ids[k + 1] ELSE 0
    /\ read_overflow(ov_file, h.ref) = Some(h.value)

\* The pages a value takes.
PagesNeeded(value) ==
    (Len(value) + PageSize - OVERFLOW_HEADER_SIZE - 1) \div (PageSize - OVERFLOW_HEADER_SIZE)

\* A step that frees the live chain h added the pages of h, each once, in
\* chain order, behind the free pages there were.
FreedAddsItsPages(h) ==
    Intact(h) => ov_free_pages' = ov_free_pages \o h.ids

\* A step that handed out the chain h took its page ids from the end of the
\* free pages as far as they went, and from next_page_id on after that.
AllocatedFromFreeFirst(h) ==
    LET need == Len(h.ids)
        avail == Len(ov_free_pages)
        reused == Min(need, avail)
    IN  /\ need = PagesNeeded(h.value)
        /\ \A k \in 1..need :
              h.ids[k] = IF k <= reused THEN ov_free_pages[avail - k + 1]
                         ELSE ov_next_page_id + (k - reused - 1)
        /\ ov_free_pages' = SubSeq(ov_free_pages, 1, avail - reused)
        /\ ov_next_page_id' = ov_next_page_id + (need - reused)

\* C36: free_overflow(ref) on an intact chain adds every page of the chain,
\* each exactly once, to free_pages; allocate_overflow takes its page ids
\* from free_pages before it advances next_page_id; next_page_id never
\* decreases, so that an allocation that finds enough free pages leaves
\* next_page_id as it was.
C36_FreeThenReuse ==
    [][/\ ov_next_page_id' >= ov_next_page_id
       /\ \A i \in 1..Len(ov_hist) :
             (ov_hist[i].live /\ ~ov_hist'[i].live) => FreedAddsItsPages(ov_hist[i])
       /\ Len(ov_hist') = Len(ov_hist) + 1
             => AllocatedFromFreeFirst(ov_hist'[Len(ov_hist')])]_ovVars

\* A chain of two pages was freed and the chain handed out after it took
\* both pages back from the free pages, last freed first: next_page_id
\* stands where it stood before the second allocation.
C36_Witness ==
    /\ Len(ov_hist) = 2
    /\ ~ov_hist[1].live /\ ov_hist[1].ids = <<2, 3>>
    /\ ov_hist[2].live /\ ov_hist[2].ids = <<3, 2>>
    /\ ov_free_pages = <<>>
    /\ ov_next_page_id = 4

(***************************************************************************)
(* Part VII.  FreeList                                                     *)
(*                                                                         *)
(* The BTreeSet is the sequence of its elements in ascending order; an     *)
(* Option<PageId> is the set of no or one id.                              *)
(***************************************************************************)
\* the largest page id freed
MaxFreeId == 4
FreeIds == 1..MaxFreeId

Elems(seq) == {seq[i] : i \in 1..Len(seq)}

\* BTreeSet::insert.
BTreeSetInsert(pages, id) ==
    IF id \in Elems(pages) THEN pages
    ELSE LET below == SelectSeq(pages, LAMBDA x : x < id)
             above == SelectSeq(pages, LAMBDA x : x > id)
         IN below \o <<id>> \o above

\* BTreeSet::remove.
BTreeSetRemove(pages, id) == SelectSeq(pages, LAMBDA x : x # id)

\* The last id of the set.
LastPage(pages) == IF pages = <<>> THEN {} ELSE {pages[Len(pages)]}

\* self.pages.iter().next().copied()
FirstPage(pages) == IF pages = <<>> THEN {} ELSE {pages[1]}

\* FreeList::contains.
FreeListContains(pages, id) == \E i \in 1..Len(pages) : pages[i] = id

\* FreeList::new.
FLInit ==
    /\ fl_pages = <<>>
    /\ fl_last = [op |-> "new", arg |-> 0, res |-> {}]
    /\ fl_set = {}
    /\ fl_prev = {}
    /\ fl_held = {}

\* FreeList::free(page_id).
FreeListFree(page_id) ==
    /\ UNCHANGED flOthers
    /\ fl_pages' = BTreeSetInsert(fl_pages, page_id)
    /\ fl_last' = [op |-> "free", arg |-> page_id, res |-> {}]
    /\ fl_set' = fl_set \cup {page_id}
    /\ fl_prev' = fl_set
    /\ fl_held' = fl_held \ {page_id}

\* FreeList::allocate.
FreeListAllocate ==
    /\ UNCHANGED flOthers
    /\ LET page_id == FirstPage(fl_pages) IN
         /\ fl_pages' = IF page_id # {} THEN BTreeSetRemove(fl_pages, CHOOSE id \in page_id : TRUE)
                        ELSE fl_pages
         /\ fl_last' = [op |-> "allocate", arg |-> 0, res |-> page_id]
         /\ fl_held' = fl_held \cup page_id
    /\ fl_set' = IF fl_set = {} THEN {}
                 ELSE fl_set \ {CHOOSE m \in fl_set : \A x \in fl_set : m <= x}
    /\ fl_prev' = fl_set

\* FreeList::clear.
FreeListClear ==
    /\ UNCHANGED flOthers
    /\ fl_pages' = <<>>
    /\ fl_last' = [op |-> "clear", arg |-> 0, res |-> {}]
    /\ fl_set' = {}
    /\ fl_prev' = fl_set
    /\ UNCHANGED fl_held

FLNext ==
    \/ \E id \in FreeIds : FreeListFree(id)
    \/ FreeListAllocate
    \/ FreeListClear

\* C21: the FreeList behaves as a set of page ids with smallest-first
\* removal: free(id) adds id and changes nothing if id is present;
\* allocate() returns None on an empty list and otherwise returns and
\* removes the smallest id, so that contains(id) is false afterwards, and no
\* id is returned by two allocate calls without a free of it in between.
C21_FreeListIsASet ==
    /\ Elems(fl_pages) = fl_set
    /\ \A i \in 1..(Len(fl_pages) - 1) : fl_pages[i] < fl_pages[i + 1]
    /\ \A id \in FreeIds : FreeListContains(fl_pages, id) <=> id \in fl_set
    /\ fl_last.op = "free" => fl_set = fl_prev \cup {fl_last.arg}
    /\ fl_last.op = "allocate" =>
          /\ fl_prev = {} => fl_last.res = {}
          /\ fl_prev # {} =>
                /\ fl_last.res \subseteq fl_prev
                /\ Cardinality(fl_last.res) = 1
                /\ \A id \in fl_last.res, x \in fl_prev : id <= x
                /\ \A id \in fl_last.res : ~FreeListContains(fl_pages, id)
                /\ fl_set = fl_prev \ fl_last.res
    /\ \A id \in fl_held : ~FreeListContains(fl_pages, id)

\* allocate returned the smallest of three free ids, while an id handed
\* out earlier and not freed since is not in the list.
C21_Witness ==
    /\ fl_last = [op |-> "allocate", arg |-> 0, res |-> {2}]
    /\ fl_pages = <<3>>
    /\ fl_held = {1, 2}

(***************************************************************************)
(* Part VIII.  BloomFilter                                                 *)
(*                                                                         *)
(* A u64 that is computed with (a hash) is the sequence of its eight       *)
(* bytes, lowest first; a u64 word of the bit array is the set of the      *)
(* positions of its bits that are 1.                                       *)
(***************************************************************************)
\* num_bits and num_hashes of BloomFilter::new(64, 0.5)
BloomNumBits == 128
BloomNumHashes == 2
\* insert calls between two clears
MaxBloomItems == 3

\* 0xcbf29ce484222325, 0x100000001b3 and the seed 0x517cc1b727220a95.
FNV_OFFSET_BASIS == <<37, 35, 34, 132, 228, 156, 242, 203>>
FNV_PRIME == <<179, 1, 0, 0, 0, 1, 0, 0>>
SecondSeed == <<149, 10, 34, 39, 183, 193, 124, 81>>
Zero64 == <<0, 0, 0, 0, 0, 0, 0, 0>>

\* The keys given to the filter.
BloomKeys == {<<1>>, <<2>>, <<1, 2>>, <<>>}

\* ^ on two bytes.
RECURSIVE XorBits(_, _, _)
XorBits(a, b, n) ==
    IF n = 0 THEN 0
    ELSE IF (a + b) % 2 = 1 THEN 1 + 2 * XorBits(a \div 2, b \div 2, n - 1)
    ELSE 2 * XorBits(a \div 2, b \div 2, n - 1)
\* ^ on u64.
Xor64(x, y) == [i \in 1..8 |-> XorBits(x[i], y[i], 8)]

\* wrapping_add on u64.
RECURSIVE AddLimbs(_, _, _)
AddLimbs(x, y, carry) ==
    IF x = <<>> THEN <<>>
    ELSE <<(Head(x) + Head(y) + carry) % 256>>
         \o AddLimbs(Tail(x), Tail(y), (Head(x) + Head(y) + carry) \div 256)
WrappingAdd(x, y) == AddLimbs(x, y, 0)

\* x times one byte, wrapping.
RECURSIVE MulLimbs(_, _, _)
MulLimbs(x, k, carry) ==
    IF x = <<>> THEN <<>>
    ELSE <<(Head(x) * k + carry) % 256>>
         \o MulLimbs(Tail(x), k, (Head(x) * k + carry) \div 256)

\* wrapping_mul on u64: x times every byte of y, shifted to its place.
RECURSIVE MulFrom(_, _, _)
MulFrom(x, y, place) ==
    IF place > 8 THEN Zero64
    ELSE WrappingAdd(SubSeq(Zero64, 1, place - 1)
                        \o SubSeq(MulLimbs(x, y[place], 0), 1, 8 - (place - 1)),
                     MulFrom(x, y, place + 1))
WrappingMul(x, y) == MulFrom(x, y, 1)

\* x % m for a u64 x and a small m.
RECURSIVE ModLimbs(_, _)
ModLimbs(x, m) ==
    IF x = <<>> THEN 0 ELSE (ModLimbs(Tail(x), m) * 256 + Head(x)) % m

\* fnv1a_hash: for &byte in data { hash ^= byte; hash = hash.wrapping_mul(FNV_PRIME) }
RECURSIVE FnvBytes(_, _)
FnvBytes(hash, data) ==
    IF data = <<>> THEN hash
    ELSE FnvBytes(WrappingMul(Xor64(hash, <<Head(data), 0, 0, 0, 0, 0, 0, 0>>), FNV_PRIME),
                  Tail(data))
fnv1a_hash(data, seed) == FnvBytes(Xor64(FNV_OFFSET_BASIS, seed), data)

\* hash_pair.
hash_pair(key) == <<fnv1a_hash(key, Zero64), fnv1a_hash(key, SecondSeed)>>

\* get_bit_index: (h1 + i * h2) % num_bits.
get_bit_index(h1, h2, i) ==
    ModLimbs(WrappingAdd(h1, WrappingMul(<<i, 0, 0, 0, 0, 0, 0, 0>>, h2)), BloomNumBits)

\* The bit indexes of a key: one for every hash function.
BitIndexes(key) ==
    LET h == hash_pair(key) IN
    {get_bit_index(h[1], h[2], i) : i \in 0..(BloomNumHashes - 1)}

\* A word that holds the new bit only: bits[word_idx] = 1 << bit_idx.
WordAssigned(word, bit_idx) == {bit_idx}

\* bits[word_idx] |= 1 << bit_idx.
WordOr(word, bit_idx) == word \cup {bit_idx}

\* The loop of insert over the bit indexes left.
RECURSIVE SetBits(_, _)
SetBits(bits, idxs) ==
    IF idxs = {} THEN bits
    ELSE LET idx == CHOOSE x \in idxs : TRUE IN
         SetBits([bits EXCEPT ![idx \div 64] = WordOr(bits[idx \div 64], idx % 64)],
                 idxs \ {idx})

\* may_contain: false at the first bit that is 0.
may_contain(bits, key) ==
    \A idx \in BitIndexes(key) : (idx % 64) \in bits[idx \div 64]

\* BloomFilter::new: vec![0u64; num_words].
NoBits == [w \in 0..(((BloomNumBits + 63) \div 64) - 1) |-> {}]
BFInit ==
    /\ bf_bits = NoBits
    /\ bf_item_count = 0
    /\ bf_last = [op |-> "new", key |-> <<>>, res |-> TRUE]
    /\ bf_inserted = {}

\* BloomFilter::insert(key).
BloomInsert(key) ==
    /\ UNCHANGED bfOthers
    /\ bf_item_count < MaxBloomItems
    /\ bf_bits' = SetBits(bf_bits, BitIndexes(key))
    /\ bf_item_count' = bf_item_count + 1
    /\ bf_last' = [op |-> "insert", key |-> key, res |-> TRUE]
    /\ bf_inserted' = bf_inserted \cup {key}

\* BloomFilter::may_contain(key).
BloomMayContain(key) ==
    /\ UNCHANGED bfOthers
    /\ bf_last' = [op |-> "may_contain", key |-> key, res |-> may_contain(bf_bits, key)]
    /\ UNCHANGED <<bf_bits, bf_item_count, bf_inserted>>

\* BloomFilter::clear.
BloomClear ==
    /\ UNCHANGED bfOthers
    /\ bf_bits' = [w \in DOMAIN bf_bits |-> {}]
    /\ bf_item_count' = 0
    /\ bf_last' = [op |-> "clear", key |-> <<>>, res |-> TRUE]
    /\ bf_inserted' = {}

BFNext ==
    \/ \E key \in BloomKeys : BloomInsert(key)
    \/ \E key \in BloomKeys : BloomMayContain(key)
    \/ BloomClear

\* C22: the Bloom filter has no false negatives: once insert(k) was
\* called, may_contain(k) returns true in every later state reached by
\* further insert calls, until clear() is called.
C22_NoFalseNegatives ==
    /\ \A key \in bf_inserted : may_contain(bf_bits, key)
    /\ (bf_last.op = "may_contain" /\ bf_last.key \in bf_inserted) => bf_last.res

\* may_contain answered true for a key inserted two inserts ago.
C22_Witness ==
    /\ bf_last = [op |-> "may_contain", key |-> <<1>>, res |-> TRUE]
    /\ bf_inserted = {<<1>>, <<2>>, <<1, 2>>}
    /\ ~may_contain(bf_bits, <<>>)

(***************************************************************************)
(* Part IX.  WalRecord                                                     *)
(*                                                                         *)
(* A record is [kind, key, value, id]: kind is the RecordType byte, id     *)
(* the txid or lsn; the fields a kind does not have stay empty or 0.       *)
(* MAX_KEY_SIZE (64 * 1024) and MAX_RECORD_PAYLOAD (64 * 1024 * 1024) are  *)
(* scaled down to MaxKeySize and MaxRecordPayload, and the keys and        *)
(* values given to encode go one byte over each of them.                   *)
(***************************************************************************)
RECORD_HEADER_SIZE == 9
MaxKeySize == 2
MaxRecordPayload == 12

RecPut == 1
RecDelete == 2
TxBegin == 3
TxCommit == 4
TxAbort == 5
Checkpoint == 6

WalPut(key, value) == [kind |-> RecPut, key |-> key, value |-> value, id |-> 0]
WalDelete(key) == [kind |-> RecDelete, key |-> key, value |-> <<>>, id |-> 0]
WalTx(kind, txid) == [kind |-> kind, key |-> <<>>, value |-> <<>>, id |-> txid]
NoRecord == [kind |-> 0, key |-> <<>>, value |-> <<>>, id |-> 0]

\* The records given to encode.
WalKeys == {[i \in 1..n |-> i] : n \in 0..(MaxKeySize + 1)}
WalValues == {<<>>, <<7>>, [i \in 1..(MaxKeySize + 1) |-> 7 + i]}
WalIds == {0, 258}
WalRecords ==
    {WalPut(k, v) : k \in WalKeys, v \in WalValues}
    \cup {WalDelete(k) : k \in WalKeys}
    \cup {WalTx(kind, id) : kind \in {TxBegin, TxCommit, TxAbort, Checkpoint}, id \in WalIds}
\* The bytes a corruption writes.
WalCorruptBytes == {0, 2, 7, 255}

\* RecordType::from_u8(v).is_some().
RecordTypeFromU8(v) == v \in {RecPut, RecDelete, TxBegin, TxCommit, TxAbort, Checkpoint}

\* A u32 of the checksum is the pair <<low 16 bits, high 16 bits>>.
\* POLYNOMIAL 0xEDB8_8320 and the initial 0xFFFF_FFFF.
POLYNOMIAL == <<33568, 60856>>
CrcInitial == <<65535, 65535>>
XorU32(a, b) == <<XorBits(a[1], b[1], 16), XorBits(a[2], b[2], 16)>>
ShrU32(a, n) == <<(a[1] \div (2 ^ n)) + (a[2] % (2 ^ n)) * (2 ^ (16 - n)), a[2] \div (2 ^ n)>>

\* generate_crc32_table: while j < 8 { crc = if crc & 1 != 0 { (crc >> 1) ^ POLYNOMIAL }
\* else { crc >> 1 } }
RECURSIVE TableShift(_, _)
TableShift(crc, j) ==
    IF j = 8 THEN crc
    ELSE TableShift(IF crc[1] % 2 = 1 THEN XorU32(ShrU32(crc, 1), POLYNOMIAL)
                    ELSE ShrU32(crc, 1), j + 1)
\* The table, once: entry i of the source is CRC32_TABLE[i + 1].
CRC32_TABLE == SubSeq([i \in 1..256 |-> TableShift(<<i - 1, 0>>, 0)], 1, 256)

\* crc32_checksum: the loop from byte n on with the crc so far,
\*   idx = (crc ^ byte) & 0xFF; crc = CRC32_TABLE[idx] ^ (crc >> 8),
\* then !crc, here as crc.to_le_bytes().
U16 == 0..65535
crc32_checksum(data) ==
    LET Loop[crc \in U16 \X U16, n \in 1..(Len(data) + 1)] ==
            IF n > Len(data) THEN crc
            ELSE Loop[XorU32(CRC32_TABLE[XorBits(crc[1] % 256, data[n], 8) + 1],
                             ShrU32(crc, 8)), n + 1]
        crc == XorU32(Loop[CrcInitial, 1], CrcInitial)
    IN  <<crc[1] % 256, crc[1] \div 256, crc[2] % 256, crc[2] \div 256>>

\* WalRecord::encode_payload.
encode_payload(r) ==
    IF r.kind = RecPut
    THEN ToLE(Len(r.key), 4) \o r.key \o ToLE(Len(r.value), 4) \o r.value
    ELSE IF r.kind = RecDelete
    THEN ToLE(Len(r.key), 4) \o r.key
    ELSE ToLE(r.id, 8)

\* An encoding that leaves the checksum field zero.
encode_no_crc(r) ==
    ToLE(RECORD_HEADER_SIZE + Len(encode_payload(r)), 4) \o <<r.kind>>
    \o <<0, 0, 0, 0>> \o encode_payload(r)

\* WalRecord::encode.
encode(r) ==
    LET payload == encode_payload(r) IN
    ToLE(RECORD_HEADER_SIZE + Len(payload), 4) \o <<r.kind>>
    \o crc32_checksum(<<r.kind>> \o payload) \o payload

WalOk(r, n) == [ok |-> TRUE, rec |-> r, len |-> n, reason |-> ""]
WalErr(reason) == [ok |-> FALSE, rec |-> NoRecord, len |-> 0, reason |-> reason]

\* WalRecord::decode_payload.
decode_payload(rtype, payload) ==
    IF rtype = RecPut THEN
        IF Len(payload) < 8 THEN WalErr("Put payload too small")
        ELSE LET key_len == FromLE(SubSeq(payload, 1, 4)) IN
        IF key_len > MaxKeySize THEN WalErr("key size exceeds maximum")
        ELSE IF Len(payload) < 4 + key_len + 4 THEN WalErr("Put payload truncated")
        ELSE LET value_offset == 4 + key_len
                 value_len == FromLE(SubSeq(payload, value_offset + 1, value_offset + 4)) IN
        IF Len(payload) < value_offset + 4 + value_len THEN WalErr("Put value truncated")
        ELSE WalOk(WalPut(SubSeq(payload, 5, 4 + key_len),
                          SubSeq(payload, value_offset + 5, value_offset + 4 + value_len)), 0)
    ELSE IF rtype = RecDelete THEN
        IF Len(payload) < 4 THEN WalErr("Delete payload too small")
        ELSE LET key_len == FromLE(SubSeq(payload, 1, 4)) IN
        IF key_len > MaxKeySize THEN WalErr("key size exceeds maximum")
        ELSE IF Len(payload) < 4 + key_len THEN WalErr("Delete key truncated")
        ELSE WalOk(WalDelete(SubSeq(payload, 5, 4 + key_len)), 0)
    ELSE
        IF Len(payload) < 8 THEN WalErr("payload too small")
        ELSE WalOk(WalTx(rtype, FromLE(SubSeq(payload, 1, 8))), 0)

\* WalRecord::decode.
decode(data) ==
    IF Len(data) < RECORD_HEADER_SIZE THEN WalErr("buffer too small")
    ELSE LET total_len == FromLE(SubSeq(data, 1, 4))
             record_type == data[5]
             stored_crc == SubSeq(data, 6, 9) IN
    IF total_len < RECORD_HEADER_SIZE THEN WalErr("invalid record length")
    ELSE IF total_len > Len(data) THEN WalErr("record length exceeds buffer size")
    ELSE IF total_len - RECORD_HEADER_SIZE > MaxRecordPayload
    THEN WalErr("payload size exceeds maximum")
    ELSE IF ~RecordTypeFromU8(record_type) THEN WalErr("invalid record type")
    ELSE LET payload == SubSeq(data, RECORD_HEADER_SIZE + 1, total_len) IN
    IF crc32_checksum(<<record_type>> \o payload) # stored_crc THEN WalErr("CRC mismatch")
    ELSE LET record == decode_payload(record_type, payload) IN
    IF record.ok THEN WalOk(record.rec, total_len) ELSE record

WRInit ==
    /\ wr_rec = NoRecord
    /\ wr_buf = <<>>
    /\ wr_res = decode(<<>>)
    /\ wr_op = "none"

\* WalRecord::decode(&r.encode()).
WalEncode(r) ==
    /\ UNCHANGED wrOthers
    /\ wr_rec' = r
    /\ wr_buf' = encode(r)
    /\ wr_res' = decode(wr_buf')
    /\ wr_op' = "encode"

\* decode of the first n bytes of an encoding.
WalTruncate(n) ==
    /\ UNCHANGED wrOthers
    /\ wr_op = "encode"
    /\ n < Len(wr_buf)
    /\ wr_buf' = SubSeq(wr_buf, 1, n)
    /\ wr_res' = decode(wr_buf')
    /\ wr_op' = "truncate"
    /\ UNCHANGED wr_rec

\* decode of an encoding with one byte changed.
WalCorrupt(off, b) ==
    /\ UNCHANGED wrOthers
    /\ wr_op = "encode"
    /\ off <= Len(wr_buf)
    /\ wr_buf[off] # b
    /\ wr_buf' = [wr_buf EXCEPT ![off] = b]
    /\ wr_res' = decode(wr_buf')
    /\ wr_op' = "corrupt"
    /\ UNCHANGED wr_rec

\* decode of an encoding that the next record's bytes follow.
WalTrailing ==
    /\ UNCHANGED wrOthers
    /\ wr_op = "encode"
    /\ wr_buf' = wr_buf \o <<RECORD_HEADER_SIZE, 0>>
    /\ wr_res' = decode(wr_buf')
    /\ wr_op' = "trailing"
    /\ UNCHANGED wr_rec

WRNext ==
    \/ \E r \in WalRecords : WalEncode(r)
    \/ \E n \in 0..(RECORD_HEADER_SIZE + MaxRecordPayload + 2) : WalTruncate(n)
    \/ \E off \in 1..(RECORD_HEADER_SIZE + MaxRecordPayload + 2), b \in WalCorruptBytes :
          WalCorrupt(off, b)
    \/ WalTrailing

\* A record decode accepts: its key and its payload are within the limits
\* decode enforces.
WithinDecodeLimits(r) ==
    /\ Len(r.key) <= MaxKeySize
    /\ Len(encode_payload(r)) <= MaxRecordPayload

\* C23: WAL record round trip: for every record r of the six kinds,
\* empty keys and values included, decode(r.encode()) returns (r, len)
\* with len the full encoded length; decode returns an error when the
\* buffer is shorter than the 9-byte header, when the type byte is not
\* in 1..6, and when the stored CRC does not match type+payload.
C23_WalRecordRoundTrip ==
    /\ wr_op = "encode" => wr_res = WalOk(wr_rec, Len(wr_buf))
    /\ wr_op = "trailing" => wr_res = WalOk(wr_rec, Len(wr_buf) - 2)
    /\ Len(wr_buf) < RECORD_HEADER_SIZE => ~wr_res.ok
    /\ (Len(wr_buf) >= 5 /\ wr_buf[5] \notin 1..6) => ~wr_res.ok
    /\ (wr_op = "corrupt" /\ \E i \in 5..Len(wr_buf) : wr_buf[i] # encode(wr_rec)[i])
          => ~wr_res.ok

(***************************************************************************)
(* Part X.  Database::load_tree on the bytes of the data region            *)
(*                                                                         *)
(* The data region is the sequence of bytes of the file from data_offset   *)
(* = 2 * PAGE_SIZE on; offsets are counted from data_offset.  A BTree is   *)
(* the set of its (key, value) pairs.                                      *)
(***************************************************************************)
\* entries laid out in a file
MaxFileEntries == 2

MAX_ENTRIES == 100000000
MAX_KEY_LEN == 64 * 1024
MAX_VALUE_LEN == 512 * 1024 * 1024

\* The largest number the model keeps, 2^30: every number above it is kept
\* as it.  It is above the three limits of load_tree.
IntSat == 2 * MAX_VALUE_LEN

\* u64::from_le_bytes and u32::from_le_bytes of 8 and of 4 bytes.
FromLeBytes(buf) ==
    IF buf[4] >= 64 \/ \E i \in 5..Len(buf) : buf[i] # 0 THEN IntSat
    ELSE buf[1] + 256 * buf[2] + 65536 * buf[3] + 16777216 * buf[4]

\* file.read_exact of n bytes at offset pos: the bytes, or the error when
\* the file ends before n bytes were read.
ReadExact(data, pos, n) ==
    IF pos + n > Len(data) THEN [ok |-> FALSE, buf |-> <<>>]
    ELSE [ok |-> TRUE, buf |-> SubSeq(data, pos + 1, pos + n)]

\* BTree::insert on a tree kept as the set of its pairs.
PairsInsert(tr, key, value) == {e \in tr : e[1] # key} \cup {<<key, value>>}

LtOk(tr, data_end, count) ==
    [err |-> "Ok", tree |-> tr, data_end |-> data_end, count |-> count,
     entry_index |-> 0, field |-> ""]
\* Error::Corrupted { context, .. }
LtCorrupted(context) ==
    [err |-> "Corrupted", tree |-> {}, data_end |-> 0, count |-> 0,
     entry_index |-> 0, field |-> context]
\* Error::EntryReadFailed { entry_index, field, .. }
LtEntryReadFailed(entry_idx, field) ==
    [err |-> "EntryReadFailed", tree |-> {}, data_end |-> 0, count |-> 0,
     entry_index |-> entry_idx, field |-> field]

\* A load_tree that takes every entry count, key length and value length.
NeverTooLong(n, max) == FALSE

\* "if entry_count > MAX_ENTRIES", "if key_len > MAX_KEY_LEN",
\* "if value_len > MAX_VALUE_LEN".
TooLong(n, max) == n > max

\* The loop of load_tree over entry_idx in 0..entry_count.
RECURSIVE LoadEntries(_, _, _, _, _)
LoadEntries(data, current_offset, entry_idx, entry_count, tr) ==
    IF entry_idx >= entry_count THEN LtOk(tr, current_offset, entry_count)
    ELSE
    LET klen == ReadExact(data, current_offset, 4) IN
    IF ~klen.ok THEN LtEntryReadFailed(entry_idx, "key length")
    ELSE
    LET key_len == FromLeBytes(klen.buf) IN
    IF TooLong(key_len, MAX_KEY_LEN) THEN LtCorrupted("loading entry key")
    ELSE
    LET key == ReadExact(data, current_offset + 4, key_len) IN
    IF ~key.ok THEN LtEntryReadFailed(entry_idx, "key data")
    ELSE
    LET vlen == ReadExact(data, current_offset + 4 + key_len, 4) IN
    IF ~vlen.ok THEN LtEntryReadFailed(entry_idx, "value length")
    ELSE
    LET value_len == FromLeBytes(vlen.buf) IN
    IF TooLong(value_len, MAX_VALUE_LEN) THEN LtCorrupted("loading entry value")
    ELSE
    LET value == ReadExact(data, current_offset + 8 + key_len, value_len) IN
    IF ~value.ok THEN LtEntryReadFailed(entry_idx, "value data")
    ELSE LoadEntries(data, current_offset + 8 + key_len + value_len,
                     entry_idx + 1, entry_count,
                     PairsInsert(tr, key.buf, value.buf))

\* Database::load_tree(file, meta).
load_tree(data, root) ==
    IF root = 0 THEN LtOk({}, 8, 0)
    ELSE
    LET count_buf == ReadExact(data, 0, 8) IN
    IF ~count_buf.ok THEN LtOk({}, 8, 0)
    ELSE
    LET entry_count == FromLeBytes(count_buf.buf) IN
    IF TooLong(entry_count, MAX_ENTRIES) THEN LtCorrupted("loading data entries")
    ELSE LoadEntries(data, 8, 0, entry_count, {})

\* An entry as it is laid out in a file: the two length fields and the bytes
\* that follow each of them.
EntryImage(key_len, key, value_len, value) ==
    [key_len |-> key_len, key |-> key, value_len |-> value_len, value |-> value]

\* The bytes of an entry image.
ImageBytes(e) ==
    ToLE(e.key_len, 4) \o e.key \o ToLE(e.value_len, 4) \o e.value

\* The entries of the files: entries as persist_tree writes them, and
\* entries whose key length or value length is at or over its limit.
EntryImages ==
    {EntryImage(0, <<>>, 1, <<7>>),
     EntryImage(1, <<1>>, 0, <<>>),
     EntryImage(1, <<2>>, 1, <<8>>),
     EntryImage(MAX_KEY_LEN, <<1>>, 1, <<7>>),
     EntryImage(MAX_KEY_LEN + 1, <<1>>, 1, <<7>>),
     EntryImage(1, <<1>>, MAX_VALUE_LEN, <<7>>),
     EntryImage(1, <<1>>, MAX_VALUE_LEN + 1, <<7>>)}

\* The entry counts of the files.
EntryCounts == (0..MaxFileEntries) \cup {MAX_ENTRIES, MAX_ENTRIES + 1}

RECURSIVE ImagesBytes(_)
ImagesBytes(es) ==
    IF es = <<>> THEN <<>> ELSE ImageBytes(es[1]) \o ImagesBytes(Tail(es))

\* The bytes of a data region holding the count and the entries.
RegionBytes(count, es) == ToLE(count, 8) \o ImagesBytes(es)

\* The sequences of at most n entry images.
ImageSeqs(n) == UNION {[1..m -> EntryImages] : m \in 0..n}

\* The state before load_tree is called by Database::open: a file that holds
\* a count and entries and has been cut to any length.
LTInit ==
    /\ lt_root \in {0, 1}
    /\ \E count \in EntryCounts, es \in ImageSeqs(MaxFileEntries) :
         \E len \in 0..Len(RegionBytes(count, es)) :
            /\ lt_desc = [count |-> count, entries |-> es, len |-> len]
            /\ lt_data = SubSeq(RegionBytes(count, es), 1, len)
    /\ lt_result = LtEntryReadFailed(0, "NotCalled")

\* The file of a new database, while the other parts run.
LTIdle ==
    /\ lt_root = 0
    /\ lt_desc = [count |-> 0, entries |-> <<>>, len |-> 0]
    /\ lt_data = <<>>
    /\ lt_result = LtEntryReadFailed(0, "NotCalled")

\* Database::open of an existing file calls load_tree and returns its error.
LoadTreeCall ==
    /\ UNCHANGED ltOthers
    /\ lt_result.field = "NotCalled"
    /\ lt_result' = load_tree(lt_data, lt_root)
    /\ UNCHANGED <<lt_root, lt_data, lt_desc>>

LTNext == LoadTreeCall

\* The bytes an entry image takes in the file.
ImageLen(e) == 8 + Len(e.key) + Len(e.value)

\* The offset at which entry j of the layout starts (j counted from 1).
RECURSIVE StartOf(_, _)
StartOf(es, j) == IF j <= 1 THEN 8 ELSE StartOf(es, j - 1) + ImageLen(es[j - 1])

\* Entry j of the layout has its lengths within the limits and equal to the
\* bytes that follow them, and lies wholly within the file.
WhollyThere(d, j) ==
    /\ j <= Len(d.entries)
    /\ d.entries[j].key_len = Len(d.entries[j].key)
    /\ d.entries[j].value_len = Len(d.entries[j].value)
    /\ StartOf(d.entries, j) + ImageLen(d.entries[j]) <= d.len

\* The number of leading entries of the layout that are wholly there.
RECURSIVE LeadingFrom(_, _)
LeadingFrom(d, j) == IF WhollyThere(d, j) THEN LeadingFrom(d, j + 1) ELSE j - 1
Leading(d) == LeadingFrom(d, 1)

\* The tree holding the first n entries of the layout.
RECURSIVE PairsOf(_, _)
PairsOf(es, n) ==
    IF n = 0 THEN {} ELSE PairsInsert(PairsOf(es, n - 1), es[n].key, es[n].value)

\* The data region is loaded: meta.root is not 0 and the file holds the
\* whole entry count.
RegionLoaded == lt_root # 0 /\ lt_desc.len >= 8

\* The first entry that is not wholly there is among the entries the count
\* announces, and a length field of it that lies wholly within the file,
\* with everything before it, is over its limit.
FieldOutOfBound(d) ==
    LET j == Leading(d) + 1
        s == StartOf(d.entries, j) IN
    /\ j <= d.count
    /\ j <= Len(d.entries)
    /\ s + 4 <= d.len
    /\ \/ d.entries[j].key_len > MAX_KEY_LEN
       \/ /\ s + 8 + d.entries[j].key_len <= d.len
          /\ d.entries[j].value_len > MAX_VALUE_LEN

\* C39: when load_tree reads the data region, an entry_count over
\* 100_000_000, a key_len over 64 KiB or a value_len over 512 MiB makes open
\* fail with Corrupted, whether or not the bytes the field announces are in
\* the file; a file that ends inside one of the entries the count announces
\* makes open fail with EntryReadFailed naming that entry's index; and when
\* open succeeds the tree holds all the entries the count announces, or none
\* at all when the region was not read.
C39_LoadTreeRejectsOutOfBoundAndTruncated ==
    lt_result.field # "NotCalled" =>
      /\ (RegionLoaded /\ lt_desc.count > MAX_ENTRIES) => lt_result.err = "Corrupted"
      /\ (RegionLoaded /\ lt_desc.count <= MAX_ENTRIES /\ FieldOutOfBound(lt_desc))
            => lt_result.err = "Corrupted"
      /\ (/\ RegionLoaded
          /\ lt_desc.count <= MAX_ENTRIES
          /\ Leading(lt_desc) < lt_desc.count
          /\ ~FieldOutOfBound(lt_desc))
            => /\ lt_result.err = "EntryReadFailed"
               /\ lt_result.entry_index = Leading(lt_desc)
      /\ (lt_result.err = "Ok" /\ RegionLoaded)
            => /\ Leading(lt_desc) >= lt_desc.count
               /\ lt_result.count = lt_desc.count
               /\ lt_result.tree = PairsOf(lt_desc.entries, lt_desc.count)
               /\ lt_result.data_end = StartOf(lt_desc.entries, lt_desc.count + 1)
      /\ (lt_result.err = "Ok" /\ ~RegionLoaded)
            => lt_result.tree = {} /\ lt_result.count = 0

\* The file announces two entries and ends inside the value of the second:
\* open has failed with EntryReadFailed for entry 1.
C39_Witness ==
    /\ lt_root = 1
    /\ lt_desc.count = 2
    /\ Len(lt_desc.entries) = 2
    /\ lt_desc.entries[2] = EntryImage(1, <<2>>, 1, <<8>>)
    /\ lt_desc.len = StartOf(lt_desc.entries, 3) - 1
    /\ lt_result.err = "EntryReadFailed"
    /\ lt_result.entry_index = 1
    /\ lt_result.field = "value data"

\* A key length over the limit in a file that ends right behind it: open has
\* failed with Corrupted.
OversizedKeyLenRejected ==
    /\ lt_root = 1
    /\ lt_desc.count = 1
    /\ Len(lt_desc.entries) = 1
    /\ lt_desc.entries[1].key_len = MAX_KEY_LEN + 1
    /\ lt_desc.len = 12
    /\ lt_result.err = "Corrupted"

\* meta.root is not 0 and the file ends inside the entry count: open has
\* returned an empty database.
CutCountOpensEmpty ==
    /\ lt_root = 1
    /\ lt_desc.count = 2
    /\ lt_desc.len = 7
    /\ lt_result.err = "Ok"
    /\ lt_result.tree = {}

(***************************************************************************)
(* The specifications.                                                     *)
(***************************************************************************)
vars == <<gcVars, dbVars, lmVars, ckVars, bkVars, ovVars, flVars, bfVars, wrVars, ltVars>>

\* The group-commit coordinator with its committer threads.
InitGC == GCInit /\ DBInit /\ LMIdle /\ CKInit /\ BKInit /\ OVInit /\ FLInit /\ BFInit /\ WRInit /\ LTIdle
SpecGC == InitGC /\ [][GCNext]_vars

\* One database handle with its transactions, crashes and reopens.
InitDB == GCInit /\ DBInit /\ LMIdle /\ CKInit /\ BKInit /\ OVInit /\ FLInit /\ BFInit /\ WRInit /\ LTIdle
SpecDB == InitDB /\ [][DBNext]_vars

\* One call of load_meta on any pair of meta pages.
InitLoadMeta == GCInit /\ DBInit /\ LMInit /\ CKInit /\ BKInit /\ OVInit /\ FLInit /\ BFInit /\ WRInit /\ LTIdle
SpecLoadMeta == InitLoadMeta /\ [][LMNext]_vars

\* A CheckpointManager with its WAL and perform_checkpoint calls.
InitCheckpoint == GCInit /\ DBInit /\ LMIdle /\ CKInit /\ BKInit /\ OVInit /\ FLInit /\ BFInit /\ WRInit /\ LTIdle
SpecCheckpoint == InitCheckpoint /\ [][CKNext]_vars

\* One BTree under the bucket operations.
InitBucket == GCInit /\ DBInit /\ LMIdle /\ CKInit /\ BKInit /\ OVInit /\ FLInit /\ BFInit /\ WRInit /\ LTIdle
SpecBucket == InitBucket /\ [][BKNext]_vars

\* One OverflowManager and its file.
InitOverflow == GCInit /\ DBInit /\ LMIdle /\ CKInit /\ BKInit /\ OVInit /\ FLInit /\ BFInit /\ WRInit /\ LTIdle
SpecOverflow == InitOverflow /\ [][OVNext]_vars

\* One FreeList.
InitFreeList == GCInit /\ DBInit /\ LMIdle /\ CKInit /\ BKInit /\ OVInit /\ FLInit /\ BFInit /\ WRInit /\ LTIdle
SpecFreeList == InitFreeList /\ [][FLNext]_vars

\* One BloomFilter.
InitBloom == GCInit /\ DBInit /\ LMIdle /\ CKInit /\ BKInit /\ OVInit /\ FLInit /\ BFInit /\ WRInit /\ LTIdle
SpecBloom == InitBloom /\ [][BFNext]_vars

\* One WAL record.
InitWalRecord == GCInit /\ DBInit /\ LMIdle /\ CKInit /\ BKInit /\ OVInit /\ FLInit /\ BFInit /\ WRInit /\ LTIdle
SpecWalRecord == InitWalRecord /\ [][WRNext]_vars

InitIncremental == GCInit /\ DBInit /\ LMIdle /\ CKInit /\ BKInit /\ OVInit /\ FLInit /\ BFInit /\ WRInit /\ LTIdle
SpecIncremental == InitIncremental /\ [][IncNext]_vars

InitOverflowFree == GCInit /\ DBInit /\ LMIdle /\ CKInit /\ BKInit /\ OVInit /\ FLInit /\ BFInit /\ WRInit /\ LTIdle
SpecOverflowFree == InitOverflowFree /\ [][OFNext]_vars

InitOverflowRead == GCInit /\ DBInit /\ LMIdle /\ CKInit /\ BKInit /\ OVAnyFile /\ FLInit /\ BFInit /\ WRInit /\ LTIdle
SpecOverflowRead == InitOverflowRead /\ [][ORNext]_vars

\* One call of load_tree on a data region cut to any length.
InitLoadTree == GCInit /\ DBInit /\ LMIdle /\ CKInit /\ BKInit /\ OVInit /\ FLInit /\ BFInit /\ WRInit /\ LTInit
SpecLoadTree == InitLoadTree /\ [][LTNext]_vars

Spec == SpecDB
====
